---- MODULE Spec2Model ----
(***************************************************************************)
(* Model of megatron/training.py: the training step (train_step), the      *)
(* metric aggregation (training_log) and the control loop (train), for one *)
(* rank (Spec) and, for the cluster-wide collectives of the control loop,  *)
(* for several ranks running train() side by side (SpecRanks).             *)
(***************************************************************************)
EXTENDS Integers, Sequences, FiniteSets, TLC

\* ------------------------------------------------------------------ bounds
\* Largest train_iters of a run.
MaxIters == 3
\* Number of ranks running train() in SpecRanks.
NumRanks == 2
\* Largest num_layers and largest un-blended length of SpecBlend.
MaxLayers == 4
MaxLen == 6

\* ------------------------------------------------- Python values: None, float
\* An optional value: None is the empty sequence, a value v is <<v>>.
None == <<>>
Some(v) == <<v>>

\* A float is a finite rational n/d (d > 0, lowest terms), +inf, -inf or NaN.
RECURSIVE GCD(_, _)
GCD(a, b) == IF b = 0 THEN a ELSE GCD(b, a % b)
Abs(x) == IF x < 0 THEN -x ELSE x
Fin(n, d) ==
    LET g == GCD(Abs(n), d)
    IN  [k |-> "fin", n |-> n \div g, d |-> d \div g]
PosInf == [k |-> "inf", n |-> 0, d |-> 1]
NegInf == [k |-> "ninf", n |-> 0, d |-> 1]
NaN == [k |-> "nan", n |-> 0, d |-> 1]
FZero == Fin(0, 1)

\* IEEE addition.
FAdd(a, b) ==
    IF a.k = "nan" \/ b.k = "nan" THEN NaN
    ELSE IF a.k = "fin" /\ b.k = "fin" THEN Fin(a.n * b.d + b.n * a.d, a.d * b.d)
    ELSE IF a.k = "fin" THEN b
    ELSE IF b.k = "fin" THEN a
    ELSE IF a.k = b.k THEN a
    ELSE NaN
\* IEEE division of a float by a positive integer.
FDivInt(a, m) == IF a.k = "fin" THEN Fin(a.n, a.d * m) ELSE a
\* IEEE comparisons: every comparison with NaN is false, so x != x holds of NaN.
FEq(a, b) == a.k # "nan" /\ b.k # "nan" /\ a = b
FNe(a, b) == ~FEq(a, b)
FGtZero(a) == a.k = "inf" \/ (a.k = "fin" /\ a.n > 0)

\* ------------------------------------------------------------- Python dicts
\* A dict is a function; Get is d.get(key, default).
EmptyDict == [x \in {} |-> 0]
Get(d, key, default) == IF key \in DOMAIN d THEN d[key] ELSE default


RECURSIVE PySum(_)
\* Python's sum(list): 0 + x1 + x2 + ..., left to right.
PySum(xs) ==
    IF xs = <<>> THEN FZero
    ELSE FAdd(PySum(SubSeq(xs, 1, Len(xs) - 1)), xs[Len(xs)])

Min(a, b) == IF a < b THEN a ELSE b
Max(a, b) == IF a < b THEN b ELSE a

\* ------------------------------------------------------------------ state
VARIABLES
    cfg,                    \* the configuration (args fields never written by train)
    pc,                     \* where train() is: "loop", "returned", "exit_duration",
                            \* "exit_interval", "error" (an exception left train)
    iteration,              \* train()'s local iteration
    args_iteration,         \* args.iteration
    consumed_train_samples, \* args.consumed_train_samples
    consumed_train_tokens,  \* args.consumed_train_tokens
    consumed_valid_samples, \* args.consumed_valid_samples
    curriculum_seqlen,      \* args.curriculum_seqlen (None while unset)
    actual_seq_length,      \* args.actual_seq_length (None while unset)
    total_loss_dict,        \* train()'s total_loss_dict
    lr_num_steps,           \* the learning-rate scheduler's accumulated increment
    num_microbatches,       \* get_num_microbatches() of the latest step
    losses_reduced,         \* what the schedule returned in the latest step
    update_successful,      \* whether the latest step's update was applied
    step_result,            \* what the latest train_step call returned
    log_string,             \* what the latest training_log call printed (None: nothing)
    total_iterations,       \* training_log's local total_iterations, latest call
    saved_checkpoint,       \* train()'s local saved_checkpoint
    events,                 \* the calls train() made in the latest iteration, in order
    retval,                 \* what train() returned (None until it returns)
    window_calls,           \* history: training_log calls since the last interval reset
    steps_executed,         \* history: train_step calls of this run
    reported,               \* history: counters printed at the interval boundaries so far
    all_ok,                 \* history: every update so far succeeded with finite losses
    rank,                   \* the per-rank state of SpecRanks
    random_ltd_reserved_length, \* args.random_ltd_reserved_length (None while unset)
    unblended_seq_length,   \* history: args.actual_seq_length before the random-LTD blend
    phases,                 \* the phases of the latest train_step call, in order
    schedule,               \* forward_backward_func of the latest train_step call
    model_mode,             \* the mode of the model partitions: "train" or "eval"
    eval_schedule,          \* forward_backward_func of the latest evaluate call
    eval_passes,            \* the forward passes of the latest evaluate call, in order
    window_totals,          \* history: total_loss_dict of the latest training_log call
                            \* after its counters and sums were updated, before a reset
    stages,                 \* history: the stages pretrain() has entered, in order
    grad_ops,               \* the gradient calls of the latest train_step call, in order
    teacher_forward,        \* args.teacher_forward
    schedule_teacher_forward, \* history: args.teacher_forward as the latest schedule
                            \* call of train_step saw it (None: no schedule call)
    curriculum_query,       \* history: the step train() asked the curriculum scheduler
                            \* about before the latest step (None: it did not ask)
    eval_entry_seqlen,      \* history: args.curriculum_seqlen when the latest evaluate
                            \* call was entered
    eval_result,            \* what the latest evaluate call returned (None: nothing)
    tb_scalars,             \* the writer.add_scalar calls of the latest training_log call
    step_entry_tokens       \* history: args.consumed_train_tokens when the latest
                            \* iteration was entered (None: no iteration yet)

vars == <<cfg, pc, iteration, args_iteration, consumed_train_samples,
          consumed_train_tokens, consumed_valid_samples, curriculum_seqlen,
          actual_seq_length, total_loss_dict, lr_num_steps, num_microbatches,
          losses_reduced, update_successful, step_result, log_string,
          total_iterations, saved_checkpoint, events, retval, window_calls,
          steps_executed, reported, all_ok, rank, random_ltd_reserved_length,
          unblended_seq_length, phases, schedule, model_mode, eval_schedule,
          eval_passes, window_totals, stages, grad_ops, teacher_forward,
          schedule_teacher_forward, curriculum_query, eval_entry_seqlen,
          eval_result, tb_scalars, step_entry_tokens>>

\* ------------------------------------------------------------- train_step
\* Mutant of Increment: the samples of one data-parallel replica.
IncrementOneReplica(c, nm) == nm * c.micro_batch_size

\* increment = get_num_microbatches() * args.micro_batch_size * args.data_parallel_size
Increment(c, nm) == nm * c.micro_batch_size * c.data_parallel_size

\* Mutant of AverageLosses: the first microbatch's values, not the mean.
AverageLossesFirst(lr) == [err |-> FALSE, val |-> lr[1]]

\* The averaging loop: for key in losses_reduced[0]: sum(x[key] for x in
\* losses_reduced) / len(losses_reduced). x[key] raises KeyError when a later
\* microbatch lacks a key of the first one.
AverageLosses(lr) ==
    LET keys == DOMAIN lr[1]
        bad  == \E i \in 1..Len(lr) : \E key \in keys : key \notin DOMAIN lr[i]
    IN  IF bad THEN [err |-> TRUE, val |-> EmptyDict]
        ELSE [err |-> FALSE,
              val |-> [key \in keys |->
                         FDivInt(PySum([i \in 1..Len(lr) |-> lr[i][key]]), Len(lr))]]

\* Mutant of LocalLrStep: the scheduler is stepped whatever the update did.
LocalLrStepAlways(c, nm, lr, success) == lr + Increment(c, nm)

\* The learning-rate scheduler after the local path's "Update learning rate":
\* stepped by the increment when the update succeeded, untouched otherwise.
LocalLrStep(c, nm, lr, success) ==
    IF success THEN lr + Increment(c, nm) ELSE lr

\* Mutant of LocalSkippedIter: no step is reported as skipped.
LocalSkippedIterZero(success) == 0

\* The local path's skipped_iter.
LocalSkippedIter(success) == IF success THEN 0 ELSE 1

\* The external-engine path's skipped_iter: update_successful is read from
\* was_step_applied() and not used.
EngineSkippedIter(success) == 0

\* model[0].step(lr_kwargs={'increment': increment}): the engine steps the
\* scheduler itself, with the increment train_step hands it, when it applies
\* the update.
EngineLrStep(c, nm, lr, success) ==
    IF success THEN lr + Increment(c, nm) ELSE lr

\* The three forward/backward schedules.
no_pipelining == "forward_backward_no_pipelining"
without_interleaving == "forward_backward_pipelining_without_interleaving"
with_interleaving == "forward_backward_pipelining_with_interleaving"

\* train_step's choice of forward_backward_func, from the pipeline-parallel
\* world size and args.virtual_pipeline_model_parallel_size.
TrainSchedule(c) ==
    IF c.pipeline_model_parallel_size > 1
    THEN IF c.virtual_pipeline_model_parallel_size # None
         THEN with_interleaving
         ELSE without_interleaving
    ELSE no_pipelining

\* The assert next to the choice of the interleaved schedule fails:
\* get_num_microbatches() % args.pipeline_model_parallel_size != 0.
TrainAssertFails(c, nm) ==
    /\ TrainSchedule(c) = with_interleaving
    /\ nm % c.pipeline_model_parallel_size # 0

\* The number of model partitions train_step and evaluate get: get_model
\* builds one per virtual pipeline rank; the external engine wraps model[0]
\* and the list is made of that one engine.
ModelPartitions(c) ==
    IF /\ ~c.deepspeed
       /\ c.pipeline_model_parallel_size > 1
       /\ c.virtual_pipeline_model_parallel_size # None
    THEN c.virtual_pipeline_model_parallel_size[1]
    ELSE 1

\* "Set grad to zero": not on the external-engine path.
ZeroGradPhase(c) == IF c.deepspeed THEN <<>> ELSE <<"zero_grad">>

\* "All-reduce if needed": the data-parallel all-reduce of the gradients.
ReduceGradientsPhase(c) ==
    IF ~c.deepspeed /\ c.DDP_impl = "local" THEN <<"allreduce_gradients">> ELSE <<>>

\* Mutant of ReduceEmbeddingPhase: only the first stage enters the all-reduce.
ReduceEmbeddingPhaseFirstStage(c) ==
    IF /\ ~c.deepspeed
       /\ c.is_first_stage
       /\ c.pipeline_model_parallel_size > 1
       /\ c.share_word_embeddings
    THEN <<"allreduce_embedding">> ELSE <<>>

\* The all-reduce of the word embeddings' gradient across the first and the
\* last stage.
ReduceEmbeddingPhase(c) ==
    IF /\ ~c.deepspeed
       /\ c.is_first_stage \/ c.is_last_stage
       /\ c.pipeline_model_parallel_size > 1
       /\ c.share_word_embeddings
    THEN <<"allreduce_embedding">> ELSE <<>>

\* The calls that zero the gradients: zero_grad_buffer() of every partition
\* with local DDP and contiguous buffers, optimizer.zero_grad() otherwise,
\* nothing on the external-engine path.
ZeroGradOps(c) ==
    IF c.deepspeed THEN <<>>
    ELSE IF c.DDP_impl = "local" /\ c.use_contiguous_buffers_in_ddp
    THEN [i \in 1..ModelPartitions(c) |->
             [call |-> "zero_grad_buffer", partition |-> i]]
    ELSE <<[call |-> "optimizer.zero_grad", partition |-> 0]>>

\* Mutant of AllReduceOps: only model[0] all-reduces its gradients.
AllReduceOpsFirstPartition(c) ==
    IF ~c.deepspeed /\ c.DDP_impl = "local"
    THEN <<[call |-> "allreduce_gradients", partition |-> 1]>>
    ELSE <<>>

\* for model_module in model: model_module.allreduce_gradients(), with local
\* DDP and not on the external-engine path.
AllReduceOps(c) ==
    IF ~c.deepspeed /\ c.DDP_impl = "local"
    THEN [i \in 1..ModelPartitions(c) |->
             [call |-> "allreduce_gradients", partition |-> i]]
    ELSE <<>>

\* torch.distributed.all_reduce(grad, group=mpu.get_embedding_group()) on the
\* gradient of model[0] (first stage) or model[-1] (last stage).
EmbeddingOps(c) ==
    IF ReduceEmbeddingPhase(c) = <<>> THEN <<>>
    ELSE <<[call |-> "allreduce_embedding",
            partition |-> IF c.is_first_stage THEN 1 ELSE ModelPartitions(c)]>>

\* The schedule call was reached: not the pipeline engine's train_batch, and
\* the assert next to the choice of the schedule held.
ScheduleCalled(c, nm) ==
    ~(c.deepspeed /\ c.ds_pipeline_enabled) /\ ~TrainAssertFails(c, nm)

\* if args.mos or args.kd
TeacherConfigured(c) == c.mos \/ c.kd

\* args.teacher_forward before the first training step: the flag is set for
\* the duration of the schedule call of a step and cleared afterwards.
TeacherForwardDefault == FALSE

\* args.teacher_forward as the schedule call sees it: set to True right
\* before the call when a teacher is configured.
TeacherFlagDuringSchedule(c, flag) == IF TeacherConfigured(c) THEN TRUE ELSE flag

\* Mutant of TeacherFlagAfterSchedule: the flag is not cleared.
TeacherFlagLeftSet(c, flag) == flag

\* args.teacher_forward after the schedule call: set to False when a teacher
\* is configured.
TeacherFlagAfterSchedule(c, flag) == IF TeacherConfigured(c) THEN FALSE ELSE flag

\* The calls train_step makes on the gradients around the schedule call, in
\* order.
TrainStepGradOps(c, nm) ==
    IF c.deepspeed /\ c.ds_pipeline_enabled THEN <<>>
    ELSE IF TrainAssertFails(c, nm) THEN ZeroGradOps(c)
    ELSE ZeroGradOps(c) \o <<[call |-> "schedule", partition |-> 0]>>
            \o AllReduceOps(c) \o EmbeddingOps(c)

\* Mutant of TrainStepPhases: the parameters are updated right after the
\* schedule call, before the gradients are reduced.
TrainStepPhasesUpdateEarly(c, nm) ==
    IF c.deepspeed /\ c.ds_pipeline_enabled THEN <<"train_batch", "result">>
    ELSE IF TrainAssertFails(c, nm) THEN ZeroGradPhase(c)
    ELSE ZeroGradPhase(c) \o <<"schedule", "update">> \o ReduceGradientsPhase(c)
            \o ReduceEmbeddingPhase(c) \o <<"result">>

\* What a train_step call does, in the order of its statements. The
\* pipeline engine's train_batch does the whole step in one call; a failed
\* assert leaves train_step before the schedule is called.
TrainStepPhases(c, nm) ==
    IF c.deepspeed /\ c.ds_pipeline_enabled THEN <<"train_batch", "result">>
    ELSE IF TrainAssertFails(c, nm) THEN ZeroGradPhase(c)
    ELSE ZeroGradPhase(c) \o <<"schedule">> \o ReduceGradientsPhase(c)
            \o ReduceEmbeddingPhase(c) \o <<"update", "result">>

\* train_step(c, nm, lr, losses, engine_loss, opt): the value returned, the
\* scheduler state left behind, and whether an exception left the call.
\*   losses: the schedule's losses_reduced; engine_loss: what train_batch
\*   returns; opt: the update's outcome (success, grad_norm, num_zeros_in_grad).
\*   updated: the update was applied; schedule: forward_backward_func (None on
\*   the pipeline-engine path, which selects none); grad_ops: the calls on
\*   the gradients.
train_step(c, nm, lr, losses, engine_loss, opt) ==
    IF c.deepspeed /\ c.ds_pipeline_enabled THEN
        [err |-> FALSE, lr |-> EngineLrStep(c, nm, lr, opt.success),
         loss_dict |-> [key \in {"lm loss"} |-> engine_loss],
         skipped_iter |-> 0, grad_norm |-> Some(1), num_zeros_in_grad |-> Some(0),
         updated |-> opt.success, schedule |-> None,
         phases |-> TrainStepPhases(c, nm),
         grad_ops |-> TrainStepGradOps(c, nm)]
    ELSE IF TrainAssertFails(c, nm) THEN
        [err |-> TRUE, lr |-> lr, loss_dict |-> EmptyDict,
         skipped_iter |-> 0, grad_norm |-> None, num_zeros_in_grad |-> None,
         updated |-> FALSE, schedule |-> Some(TrainSchedule(c)),
         phases |-> TrainStepPhases(c, nm),
         grad_ops |-> TrainStepGradOps(c, nm)]
    ELSE IF c.deepspeed THEN
        LET avg == AverageLosses(losses)
        IN  [err |-> avg.err, lr |-> EngineLrStep(c, nm, lr, opt.success),
             loss_dict |-> avg.val,
             skipped_iter |-> EngineSkippedIter(opt.success),
             grad_norm |-> None, num_zeros_in_grad |-> None,
             updated |-> opt.success, schedule |-> Some(TrainSchedule(c)),
             phases |-> TrainStepPhases(c, nm),
         grad_ops |-> TrainStepGradOps(c, nm)]
    ELSE
        LET avg == IF c.is_last_stage THEN AverageLosses(losses)
                   ELSE [err |-> FALSE, val |-> EmptyDict]
        IN  [err |-> avg.err, lr |-> LocalLrStep(c, nm, lr, opt.success),
             loss_dict |-> avg.val,
             skipped_iter |-> LocalSkippedIter(opt.success),
             grad_norm |-> opt.grad_norm, num_zeros_in_grad |-> opt.num_zeros,
             updated |-> opt.success, schedule |-> Some(TrainSchedule(c)),
             phases |-> TrainStepPhases(c, nm),
         grad_ops |-> TrainStepGradOps(c, nm)]

\* ----------------------------------------------------------- training_log
advanced_iters_key == "advanced iterations"
skipped_iters_key == "skipped iterations"
nan_iters_key == "nan iterations"
CounterKeys == {advanced_iters_key, skipped_iters_key, nan_iters_key}

\* Mutant of is_nan: only the self-inequality test, the infinities forgotten.
is_nan_self_test_only(value) == FNe(value, value)

\* is_nan = value == float('inf') or value == -float('inf') or value != value
is_nan(value) == FEq(value, PosInf) \/ FEq(value, NegInf) \/ FNe(value, value)

\* Mutant of AdvancedCount: the advanced counter grows in every call.
AdvancedCountAlways(tld, skipped_iter) == Get(tld, advanced_iters_key, 0) + 1

\* "Advanced iterations": one more when the step was not skipped; the key is
\* created at 0 when the step was skipped and the key is missing.
AdvancedCount(tld, skipped_iter) ==
    IF skipped_iter = 0 THEN Get(tld, advanced_iters_key, 0) + 1
    ELSE Get(tld, advanced_iters_key, 0)

\* "Skipped iterations": total_loss_dict.get(skipped_iters_key, 0) + skipped_iter
SkippedCount(tld, skipped_iter) == Get(tld, skipped_iters_key, 0) + skipped_iter

\* Mutant of GotNan: the values are looked at whatever the skipped flag.
GotNanWhateverSkipped(loss_dict, skipped_iter) ==
    \E key \in DOMAIN loss_dict : is_nan(loss_dict[key])

\* got_nan after the loop over loss_dict: the values are looked at only in the
\* else branch, the one a skipped step takes.
GotNan(loss_dict, skipped_iter) ==
    \E key \in DOMAIN loss_dict : skipped_iter # 0 /\ is_nan(loss_dict[key])

\* total_loss_dict[nan_iters_key] = total_loss_dict.get(nan_iters_key, 0) + int(got_nan)
NanCount(tld, loss_dict, skipped_iter) ==
    Get(tld, nan_iters_key, 0) + (IF GotNan(loss_dict, skipped_iter) THEN 1 ELSE 0)

\* Mutant of RunningSum: the step's value is added whatever the skipped flag.
RunningSumAlways(tld, loss_dict, skipped_iter, key) ==
    IF key \in DOMAIN loss_dict
    THEN FAdd(Get(tld, key, FZero), loss_dict[key])
    ELSE tld[key]

\* The running sum of one key after the loop: the step's value is added when
\* the step was not skipped.
RunningSum(tld, loss_dict, skipped_iter, key) ==
    IF key \in DOMAIN loss_dict /\ skipped_iter = 0
    THEN FAdd(Get(tld, key, FZero), loss_dict[key])
    ELSE tld[key]

\* total_loss_dict after the counters and the running sums are updated.
UpdateTotals(tld, loss_dict, skipped_iter) ==
    LET summed == IF skipped_iter = 0 THEN DOMAIN loss_dict ELSE {}
    IN  [key \in (DOMAIN tld) \cup CounterKeys \cup summed |->
            IF key = advanced_iters_key THEN AdvancedCount(tld, skipped_iter)
            ELSE IF key = skipped_iters_key THEN SkippedCount(tld, skipped_iter)
            ELSE IF key = nan_iters_key THEN NanCount(tld, loss_dict, skipped_iter)
            ELSE RunningSum(tld, loss_dict, skipped_iter, key)]

\* avg = total_loss_dict[key].item() / float(max(1, total_loss_dict[advanced_iters_key]))
IntervalAverage(tld, key) == FDivInt(tld[key], Max(1, tld[advanced_iters_key]))

\* The line printed at an interval boundary: the averages above 0.0, and the
\* skipped and nan counts.
LogLine(tld) ==
    [losses |-> [key \in {x \in (DOMAIN tld) \ CounterKeys :
                            FGtZero(IntervalAverage(tld, x))} |->
                    IntervalAverage(tld, key)],
     skipped |-> tld[skipped_iters_key],
     nan |-> tld[nan_iters_key]]

\* Mutant of ResetTotals: the running sums are reset, the counters are not.
ResetTotalsSumsOnly(tld) ==
    [key \in DOMAIN tld |-> IF key \in CounterKeys THEN tld[key] ELSE FZero]

\* Mutant of ResetTotals: the advanced counter is not reset.
ResetTotalsKeepAdvanced(tld) ==
    [key \in DOMAIN tld |->
        IF key = advanced_iters_key THEN tld[key]
        ELSE IF key \in CounterKeys THEN 0 ELSE FZero]

\* total_loss_dict after the boundary: every running sum and counter at zero.
ResetTotals(tld) ==
    [key \in DOMAIN tld |-> IF key \in CounterKeys THEN 0 ELSE FZero]

\* if iteration % args.log_interval == 0
AtLogBoundary(c, it) == it % c.log_interval = 0

\* if writer and (iteration % args.tensorboard_log_interval == 0) and
\* is_last_rank()
TensorboardGate(c, it) ==
    c.tensorboard_writer /\ it % c.tensorboard_log_interval = 0 /\ c.is_last_rank

\* writer.add_scalar(tag, value, x) for one metric, once per x-axis in axes:
\* the iteration, args.consumed_train_samples, args.consumed_train_tokens.
Scalars(metric, axes, it, samples, tokens) ==
    {[metric |-> metric, x |-> a,
      at |-> IF a = "iteration" THEN it ELSE IF a = "samples" THEN samples ELSE tokens] :
        a \in axes}

\* The x-axes the batch size is written against: 'batch-size/batch-size' and
\* 'batch-size/batch-size vs samples'.
BatchSizeAxes == {"iteration", "samples"}

\* The "Tensorboard values" block of training_log: the scalars it writes, in
\* a call that passes TensorboardGate. c.curriculum and c.random_ltd select
\* the sequence-length series; args.actual_seq_length is always set by train().
TensorboardScalars(c, it, samples, tokens, loss_dict, grad_norm, num_zeros, params_norm) ==
    LET three == {"iteration", "samples", "tokens"}
        S(metric, axes) == Scalars(metric, axes, it, samples, tokens)
    IN  S("steps", {"samples", "tokens"})
        \cup S("samples", {"iteration"})
        \cup S("tokens", {"iteration"})
        \cup (IF c.log_learning_rate_to_tensorboard
              THEN S("learning-rate", three) ELSE {})
        \cup (IF c.log_batch_size_to_tensorboard
              THEN S("batch-size", BatchSizeAxes) ELSE {})
        \cup UNION {S(key, three) : key \in DOMAIN loss_dict}
        \cup (IF c.log_loss_scale_to_tensorboard THEN S("loss-scale", three) ELSE {})
        \cup (IF grad_norm # None THEN S("grad-norm", three) ELSE {})
        \cup (IF num_zeros # None THEN S("num-zeros", three) ELSE {})
        \cup (IF params_norm # None THEN S("params-norm", three) ELSE {})
        \cup S("actual_seq_length", three)
        \cup (IF c.curriculum_learning_legacy \/ c.data_efficiency_curriculum_learning
              THEN S("curriculum_seqlen", three) ELSE {})
        \cup (IF c.random_ltd THEN S("random_ltd_reserved_length", three) ELSE {})
        \cup (IF c.log_timers_to_tensorboard THEN S("timers", {"iteration"}) ELSE {})

\* params_norm as train() passes it: calc_params_l2_norm(model) under
\* args.log_params_norm, None otherwise.
ParamsNorm(c) == IF c.log_params_norm THEN Some(1) ELSE None

\* training_log(c, tld, loss_dict, it, skipped_iter): the dict left behind,
\* the local total_iterations and the line printed (None off the boundary).
training_log(c, tld, loss_dict, it, skipped_iter) ==
    LET upd == UpdateTotals(tld, loss_dict, skipped_iter)
    IN  [total_iterations |-> upd[advanced_iters_key] + upd[skipped_iters_key],
         updated |-> upd,
         log_string |-> IF AtLogBoundary(c, it) THEN Some(LogLine(upd)) ELSE None,
         total_loss_dict |-> IF AtLogBoundary(c, it) THEN ResetTotals(upd) ELSE upd]

\* ------------------------------------------------------------------ train
\* get_num_microbatches() after update_num_microbatches(consumed_samples): the
\* batch-size ramp-up, one microbatch until rampup_samples are consumed and
\* max_microbatches from then on.
NumMicrobatches(c, consumed) ==
    IF consumed < c.rampup_samples THEN 1 ELSE c.max_microbatches

\* args.curriculum_scheduler.update_difficulty(step): the sequence length of
\* a step, growing by curriculum_min per step up to seq_length.
UpdateDifficulty(c, step) == Min(c.seq_length, c.curriculum_min * step)

\* Mutant of LoopGuard: the loop stops one iteration before train_iters.
LoopGuardStopsEarly(c, it, tokens) ==
    /\ it + 1 < c.train_iters
    /\ IF c.train_tokens = None THEN TRUE ELSE tokens < c.train_tokens[1]

\* Mutant of LoopGuard: the token limit is inclusive.
LoopGuardTokensInclusive(c, it, tokens) ==
    /\ it < c.train_iters
    /\ IF c.train_tokens = None THEN TRUE ELSE tokens <= c.train_tokens[1]

\* Mutant of LoopGuard: the iteration bound is inclusive.
LoopGuardInclusive(c, it, tokens) ==
    /\ it <= c.train_iters
    /\ IF c.train_tokens = None THEN TRUE ELSE tokens < c.train_tokens[1]

\* Mutant of LoopGuard: the token limit is not looked at.
LoopGuardNoTokens(c, it, tokens) == it < c.train_iters

\* while iteration < args.train_iters and (args.train_tokens is None or
\*       args.consumed_train_tokens < args.train_tokens)
LoopGuard(c, it, tokens) ==
    /\ it < c.train_iters
    /\ IF c.train_tokens = None THEN TRUE ELSE tokens < c.train_tokens[1]

\* if args.curriculum_learning_legacy and not args.no_pipeline_parallel
LegacyCurriculum(c) == c.curriculum_learning_legacy /\ ~c.no_pipeline_parallel

\* if args.curriculum_learning_legacy or args.data_efficiency_curriculum_learning
AnyCurriculum(c) ==
    c.curriculum_learning_legacy \/ c.data_efficiency_curriculum_learning

\* Mutant of NewSamples: the data-parallel world size left out.
NewSamplesOneReplica(c, nm) == c.micro_batch_size * nm

\* Mutant of CurriculumQuery: the scheduler is asked about the number of
\* completed iterations.
CurriculumQueryCompleted(c, args_it) ==
    IF LegacyCurriculum(c) THEN Some(args_it) ELSE None

\* The step train() asks the curriculum scheduler about before train_step:
\* update_difficulty(args.iteration + 1) under the legacy curriculum unless
\* no_pipeline_parallel is set; None: the scheduler is not asked.
CurriculumQuery(c, args_it) ==
    IF LegacyCurriculum(c) THEN Some(args_it + 1) ELSE None

\* new_samples = mpu.get_data_parallel_world_size() * args.micro_batch_size *
\*               get_num_microbatches()
NewSamples(c, nm) == c.data_parallel_size * c.micro_batch_size * nm

\* Mutant of BlendedLength: the two weights are exchanged.
BlendedLengthSwapped(c, len, reserved) ==
    (len * c.random_ltd_layer_num
        + reserved * (c.num_layers - c.random_ltd_layer_num)) \div c.num_layers

\* Mutant of BlendedLength: the mean of the two lengths, whatever the layers.
BlendedLengthUnweighted(c, len, reserved) == (len + reserved) \div 2

\* The random-LTD blend of the un-blended length len with the reserved length.
BlendedLength(c, len, reserved) ==
    (len * (c.num_layers - c.random_ltd_layer_num)
        + reserved * c.random_ltd_layer_num) \div c.num_layers

\* args.actual_seq_length before the blend: seq_length, or the curriculum
\* length when a curriculum is active.
UnblendedSeqLength(c, cur_seqlen) ==
    IF AnyCurriculum(c) THEN cur_seqlen ELSE c.seq_length

\* args.actual_seq_length of a step: seq_length, or the curriculum length when
\* a curriculum is active, blended when random-LTD reserves a shorter length.
ActualSeqLength(c, cur_seqlen, reserved) ==
    LET len == UnblendedSeqLength(c, cur_seqlen)
    IN  IF c.random_ltd /\ reserved < len THEN BlendedLength(c, len, reserved)
        ELSE len

\* Mutant of TokensAdded: the data-parallel size left out of the sample count.
TokensAddedOneReplica(c, nm, seqlen) == c.micro_batch_size * nm * seqlen

\* What one iteration adds to args.consumed_train_tokens (args has no
\* data_efficiency_curriculum_learning_numel here, so both branches add the same).
TokensAdded(c, nm, seqlen) == NewSamples(c, nm) * seqlen

\* Mutant of AutoresumeGate: the termination check runs in every iteration.
AutoresumeEveryIteration(c, it) == c.adlr_autoresume

\* The periodic side effects' gates.
AutoresumeGate(c, it) ==
    c.adlr_autoresume /\ it % c.adlr_autoresume_interval = 0
EvalGate(c, it) ==
    c.eval_interval # 0 /\ it % c.eval_interval = 0 /\ c.do_valid
SaveGate(c, it) ==
    c.save /\ c.save_interval # 0 /\ it % c.save_interval = 0
DurationGate(c) == c.exit_duration_in_mins # 0
ExitIntervalGate(c, it) == c.exit_interval # 0 /\ it % c.exit_interval = 0

\* evaluate(), as train() sees it: args.consumed_valid_samples grows by one
\* global batch per evaluation pass, and a legacy curriculum length is set
\* again from the scheduler at the end.
EvaluateValidSamples(c, nm, valid) == valid + c.eval_iters * NewSamples(c, nm)
EvaluateCurriculum(c, args_it, cur) ==
    IF LegacyCurriculum(c) THEN Some(UpdateDifficulty(c, args_it + 1)) ELSE cur

\* Mutant of EvalSchedule: the virtual pipeline size is not looked at.
EvalScheduleNeverInterleaved(c) ==
    IF c.pipeline_model_parallel_size > 1 THEN without_interleaving
    ELSE no_pipelining

\* evaluate's choice of forward_backward_func, made in every pass.
EvalSchedule(c) ==
    IF c.pipeline_model_parallel_size > 1
    THEN IF c.virtual_pipeline_model_parallel_size # None
         THEN with_interleaving
         ELSE without_interleaving
    ELSE no_pipelining

\* What a pass of evaluate calls: the pipeline engine's eval_batch, or the
\* schedule it chose.
EvalCall(c) ==
    IF c.deepspeed /\ c.ds_pipeline_enabled THEN "eval_batch" ELSE EvalSchedule(c)

\* How an evaluate call goes: 0, no call raises; j, the j-th forward pass raises.
EvalFailures(c) == 0..c.eval_iters

\* Mutant of EvalForcedSeqlen: the passes run with the length of the entry.
EvalSeqlenKept(c, cur) == cur

\* The curriculum length evaluate runs its passes with: a legacy curriculum
\* length below seq_length is set to seq_length.
EvalForcedSeqlen(c, cur) ==
    IF LegacyCurriculum(c) THEN (IF cur[1] < c.seq_length THEN Some(c.seq_length) ELSE cur)
    ELSE cur

\* The loss dicts of a forward step.
LmLoss(v) == [key \in {"lm loss"} |-> v]
LmMoeLoss(v, w) == [key \in {"lm loss", "moe loss"} |-> IF key = "lm loss" THEN v ELSE w]

\* What the forward passes of an evaluation report: the language-model loss
\* alone, or with a mixture-of-experts loss next to it.
EvalProfiles(c) ==
    IF (c.deepspeed /\ c.ds_pipeline_enabled) \/ ~c.is_last_stage THEN {"lm"}
    ELSE {"lm", "lm_moe"}

\* loss_dicts of the j-th pass: [{'lm loss': loss}] * get_num_microbatches()
\* from the pipeline engine's eval_batch, what the schedule returns otherwise
\* (one dict per microbatch on the last stage, nothing elsewhere).
EvalLossDicts(c, prof, j, nm) ==
    IF c.deepspeed /\ c.ds_pipeline_enabled
    THEN [i \in 1..nm |-> LmLoss(Fin(j, 1))]
    ELSE IF ~c.is_last_stage THEN <<>>
    ELSE [i \in 1..nm |->
             IF prof = "lm" THEN LmLoss(Fin(i + j, 1))
             ELSE LmMoeLoss(Fin(i + j, 1), Fin(2, 1))]

\* 'moe' in key
MoeKey(key) == key \in {"moe loss"}

\* Mutant of EvalDivisor: the number of passes alone.
EvalDivisorPasses(c, nm) == c.eval_iters

\* args.eval_iters * get_num_microbatches()
EvalDivisor(c, nm) == c.eval_iters * nm

\* evaluate's total_loss_dict as it is returned: on the last stage the sum,
\* over the passes and their loss dicts, of every key without 'moe' in it,
\* divided afterwards; empty elsewhere. dicts[j] is loss_dicts of pass j.
EvalTotals(c, dicts, nm) ==
    LET seen == UNION {UNION {DOMAIN dicts[j][i] : i \in 1..Len(dicts[j])} :
                             j \in 1..Len(dicts)}
        keys == {key \in seen : ~MoeKey(key)}
        Sum(key) ==
            PySum([j \in 1..Len(dicts) |->
                     PySum([i \in 1..Len(dicts[j]) |-> Get(dicts[j][i], key, FZero)])])
    IN  IF ~c.is_last_stage THEN EmptyDict
        ELSE [key \in keys |-> FDivInt(Sum(key), EvalDivisor(c, nm))]

\* evaluate(c, nm, args_it, cur, valid, fail, prof): what the call leaves
\* behind. The partitions are put in eval mode, the passes run, the
\* partitions are put back in train mode, the sums are divided and the
\* curriculum length is set again; an exception raised by a pass leaves the
\* call at that pass.
evaluate(c, nm, args_it, cur, valid, fail, prof) ==
    LET started   == IF fail = 0 THEN c.eval_iters ELSE fail
        completed == IF fail = 0 THEN c.eval_iters ELSE fail - 1
        forced    == EvalForcedSeqlen(c, cur)
        dicts     == [j \in 1..completed |-> EvalLossDicts(c, prof, j, nm)]
    IN  [err |-> fail # 0,
         model_mode |-> IF fail = 0 THEN "train" ELSE "eval",
         schedule |-> IF started > 0 THEN Some(EvalSchedule(c)) ELSE None,
         passes |-> [j \in 1..started |->
                       [mode |-> "eval", call |-> EvalCall(c), nm |-> nm,
                        raised |-> (j = fail), seqlen |-> forced,
                        loss_dicts |-> IF j = fail THEN <<>> ELSE dicts[j]]],
         consumed_valid_samples |->
             IF fail = 0 THEN EvaluateValidSamples(c, nm, valid)
             ELSE valid + completed * NewSamples(c, nm),
         curriculum_seqlen |->
             IF fail = 0 THEN EvaluateCurriculum(c, args_it, forced) ELSE forced,
         entry_seqlen |-> cur,
         result |-> IF fail = 0 THEN Some(EvalTotals(c, dicts, nm)) ELSE None]

\* An iteration without an evaluation.
NoEvaluate(cur, valid, mode, sched, passes, entry, result) ==
    [err |-> FALSE, model_mode |-> mode, schedule |-> sched, passes |-> passes,
     consumed_valid_samples |-> valid, curriculum_seqlen |-> cur,
     entry_seqlen |-> entry, result |-> result]

\* Mutant of ExitSave: the exit paths save whatever the iteration saved before.
ExitSaveAlways(saved) == <<"save">>

\* if not saved_checkpoint: save_checkpoint_and_time(...)
ExitSave(saved) == IF saved THEN <<>> ELSE <<"save">>

\* The calls of an iteration after training_log up to an evaluate call that
\* raises.
CallsUpToEvaluate(c, it) ==
    (IF AutoresumeGate(c, it) THEN <<"autoresume">> ELSE <<>>) \o <<"evaluate">>

\* The calls of one iteration after training_log, in the order train() makes
\* them; done is the all-reduced duration flag.
SideEffects(c, it, done) ==
    LET auto  == IF AutoresumeGate(c, it) THEN <<"autoresume">> ELSE <<>>
        eval  == IF EvalGate(c, it) THEN <<"evaluate">> ELSE <<>>
        save  == IF SaveGate(c, it) THEN <<"save">> ELSE <<>>
        again == ExitSave(SaveGate(c, it))
        dur   == IF ~DurationGate(c) THEN <<>>
                 ELSE IF done THEN <<"all_reduce">> \o again \o <<"exit">>
                 ELSE <<"all_reduce">>
        exit  == IF DurationGate(c) /\ done THEN <<>>
                 ELSE IF ExitIntervalGate(c, it) THEN again \o <<"barrier", "exit">>
                 ELSE <<>>
    IN  auto \o eval \o save \o dur \o exit

\* Where train() is after an iteration.
NextPc(c, it, done) ==
    IF DurationGate(c) /\ done THEN "exit_duration"
    ELSE IF ExitIntervalGate(c, it) THEN "exit_interval"
    ELSE "loop"

\* ----------------------------------------------------------------- inputs
\* The loss values a forward pass reports.
LossValues == {Fin(1, 1), PosInf, NegInf, NaN}
FirstDicts == {LmLoss(v) : v \in LossValues} \cup {LmMoeLoss(Fin(1, 1), Fin(2, 1))}
RestDicts == {LmLoss(Fin(2, 1)), LmMoeLoss(Fin(2, 1), Fin(1, 1))}

\* losses_reduced of a step with nm microbatches: a list of nm loss dicts on a
\* rank that gets the losses, the empty list elsewhere.
ScheduleOutputs(c, nm) ==
    IF c.deepspeed /\ c.ds_pipeline_enabled THEN {<<>>}
    ELSE IF ~c.deepspeed /\ ~c.is_last_stage THEN {<<>>}
    ELSE {[i \in 1..nm |-> IF i = 1 THEN a ELSE b] : a \in FirstDicts, b \in RestDicts}

\* What model[0].train_batch returns on the pipeline-engine path.
EngineLosses(c) ==
    IF c.deepspeed /\ c.ds_pipeline_enabled THEN LossValues ELSE {FZero}

\* The outcome of the update: optimizer.step() -> (success, grad_norm,
\* num_zeros_in_grad), or the engine's was_step_applied().
UpdateOutcomes ==
    {[success |-> TRUE, grad_norm |-> Some(1), num_zeros |-> None],
     [success |-> FALSE, grad_norm |-> None, num_zeros |-> None]}

\* The all-reduced duration flag, when the duration check is configured.
DoneValues(c) == IF DurationGate(c) THEN BOOLEAN ELSE {FALSE}

\* model[0].random_ltd_scheduler.get_current_seq()
ReservedLengths(c) ==
    IF c.random_ltd
    THEN {c.seq_length \div 4, c.seq_length \div 4 - 1, c.seq_length}
    ELSE {0}

\* args.curriculum_seqlen as the step leaves it: set by train() from the
\* scheduler for a legacy curriculum unless no_pipeline_parallel is set, set by
\* the forward step for the other curricula, untouched without a curriculum.
CurriculumChoices(c, args_it, cur) ==
    IF CurriculumQuery(c, args_it) # None
    THEN {Some(UpdateDifficulty(c, CurriculumQuery(c, args_it)[1]))}
    ELSE IF AnyCurriculum(c) THEN {Some(c.seq_length \div 2), Some(c.seq_length)}
    ELSE {cur}

AllFinite(losses, engine_loss) ==
    /\ engine_loss.k = "fin"
    /\ \A i \in 1..Len(losses) : \A key \in DOMAIN losses[i] : losses[i][key].k = "fin"

\* ------------------------------------------------------------ configurations
BaseCfg ==
    [deepspeed |-> FALSE, ds_pipeline_enabled |-> FALSE, is_last_stage |-> TRUE,
     micro_batch_size |-> 4, data_parallel_size |-> 2,
     rampup_samples |-> 0, max_microbatches |-> 2,
     seq_length |-> 2048, train_iters |-> MaxIters, train_tokens |-> None,
     log_interval |-> 2, eval_interval |-> 0, eval_iters |-> 1, do_valid |-> FALSE,
     save |-> FALSE, save_interval |-> 0, exit_interval |-> 0,
     exit_duration_in_mins |-> 0,
     adlr_autoresume |-> FALSE, adlr_autoresume_interval |-> 2,
     curriculum_learning_legacy |-> FALSE,
     data_efficiency_curriculum_learning |-> FALSE,
     no_pipeline_parallel |-> FALSE, curriculum_min |-> 1024,
     random_ltd |-> FALSE, num_layers |-> 24, random_ltd_layer_num |-> 6,
     start_iteration |-> 0,
     pipeline_model_parallel_size |-> 1,
     virtual_pipeline_model_parallel_size |-> None,
     is_first_stage |-> TRUE, DDP_impl |-> "local",
     share_word_embeddings |-> TRUE,
     global_batch_size |-> 16, train_samples |-> None, tensor_rank_0 |-> TRUE,
     do_train |-> TRUE, inference |-> FALSE, kd |-> FALSE, mos |-> FALSE,
     use_contiguous_buffers_in_ddp |-> TRUE,
     tensorboard_writer |-> FALSE, is_last_rank |-> FALSE,
     tensorboard_log_interval |-> 1,
     log_learning_rate_to_tensorboard |-> FALSE,
     log_batch_size_to_tensorboard |-> FALSE,
     log_loss_scale_to_tensorboard |-> FALSE,
     log_timers_to_tensorboard |-> FALSE, log_params_norm |-> FALSE]

\* The step and logging configurations: every path of train_step, with and
\* without batch-size ramp-up, for several logging intervals and resume points.
StepConfigs ==
    {[BaseCfg EXCEPT !.deepspeed = m[1], !.ds_pipeline_enabled = m[2],
                     !.is_last_stage = m[3], !.log_interval = li,
                     !.pipeline_model_parallel_size = IF m[3] THEN 1 ELSE 2,
                     !.start_iteration = st, !.rampup_samples = ru,
                     !.max_microbatches = IF ru = 0 THEN 2 ELSE 3] :
        m \in {<<FALSE, FALSE, TRUE>>, <<FALSE, FALSE, FALSE>>,
               <<TRUE, FALSE, TRUE>>, <<TRUE, TRUE, TRUE>>},
        li \in {1, 2, 3}, st \in {0, 1}, ru \in {0, 8}}

\* The control-loop configurations: iteration and token limits, periodic
\* evaluation and checkpoints, the two exit paths.
LoopConfigs ==
    {[BaseCfg EXCEPT !.train_iters = ti, !.train_tokens = tt,
                     !.start_iteration = st, !.max_microbatches = 1,
                     !.eval_interval = x[1], !.do_valid = (x[1] # 0),
                     !.save = x[2], !.save_interval = x[3],
                     !.exit_interval = x[4], !.exit_duration_in_mins = x[5],
                     !.adlr_autoresume = x[6]] :
        ti \in 0..MaxIters, st \in {0, 1},
        tt \in {None, Some(2 * 8 * 2048)},
        x \in {<<0, FALSE, 0, 0, 0, FALSE>>, <<2, TRUE, 2, 0, 0, TRUE>>,
               <<0, TRUE, 1, 2, 0, FALSE>>, <<0, FALSE, 0, 2, 0, FALSE>>,
               <<0, TRUE, 2, 0, 30, FALSE>>, <<1, FALSE, 0, 3, 30, FALSE>>}}

\* The sequence-length configurations: curricula and random-LTD, two
\* iterations with an evaluation after the second. The curriculum scheduler
\* and the random-LTD scheduler are the external engine's, whose pipeline
\* engine runs unless no_pipeline_parallel is set.
LengthConfigs ==
    {[BaseCfg EXCEPT !.deepspeed = TRUE, !.ds_pipeline_enabled = ~x[3],
                     !.curriculum_learning_legacy = x[1],
                     !.data_efficiency_curriculum_learning = x[2],
                     !.no_pipeline_parallel = x[3], !.random_ltd = x[4],
                     !.eval_interval = 2, !.do_valid = TRUE,
                     !.train_iters = 2, !.max_microbatches = 1,
                     !.curriculum_min = 512] :
        x \in {<<TRUE, FALSE, FALSE, FALSE>>, <<TRUE, FALSE, TRUE, FALSE>>,
               <<FALSE, TRUE, FALSE, FALSE>>, <<FALSE, FALSE, FALSE, TRUE>>,
               <<TRUE, FALSE, FALSE, TRUE>>}}

\* The topologies: external engine or not, the pipeline-parallel world size
\* and the virtual pipeline size, the stage of the rank (first, last), the
\* DDP implementation, shared embeddings, contiguous gradient buffers. The
\* rank that is neither the first nor the last stage is one of four stages.
Topologies ==
    {<<FALSE, 1, None, TRUE, TRUE, "local", TRUE, FALSE>>,
     <<FALSE, 1, Some(2), TRUE, TRUE, "torch", TRUE, TRUE>>,
     <<FALSE, 2, None, TRUE, FALSE, "local", TRUE, TRUE>>,
     <<FALSE, 2, None, TRUE, FALSE, "local", FALSE, TRUE>>,
     <<FALSE, 4, None, FALSE, FALSE, "local", TRUE, TRUE>>,
     <<FALSE, 2, None, FALSE, TRUE, "local", FALSE, TRUE>>,
     <<FALSE, 2, Some(2), TRUE, FALSE, "local", TRUE, TRUE>>,
     <<FALSE, 2, Some(2), FALSE, TRUE, "local", TRUE, FALSE>>,
     <<TRUE, 1, None, TRUE, TRUE, "local", TRUE, TRUE>>,
     <<TRUE, 2, Some(2), FALSE, TRUE, "local", TRUE, TRUE>>}

\* The topology configurations, with numbers of microbatches the
\* pipeline-parallel size divides and does not divide; one step, or none (a
\* run resumed at its last iteration), and the validation after training,
\* of two passes.
TopologyConfigs ==
    {[BaseCfg EXCEPT !.train_iters = 1, !.log_interval = 1, !.do_valid = TRUE,
                     !.eval_iters = 2,
                     !.deepspeed = t[1], !.no_pipeline_parallel = t[1],
                     !.pipeline_model_parallel_size = t[2],
                     !.virtual_pipeline_model_parallel_size = t[3],
                     !.is_first_stage = t[4], !.is_last_stage = t[5],
                     !.DDP_impl = t[6], !.share_word_embeddings = t[7],
                     !.use_contiguous_buffers_in_ddp = t[8],
                     !.max_microbatches = nm, !.start_iteration = st] :
        t \in Topologies, nm \in {2, 3}, st \in {0, 1}}

\* The distillation configurations: a teacher pass for kd or mos, with and
\* without the external engine (never its pipeline engine: the teacher is
\* loaded by load_model_weights_only, which asserts it is none), the schedule
\* without pipelining and the interleaved one, with numbers of microbatches
\* the pipeline-parallel size divides and does not divide.
TeacherConfigs ==
    {[BaseCfg EXCEPT !.train_iters = 1, !.log_interval = 1,
                     !.kd = k[1], !.mos = k[2],
                     !.deepspeed = ds, !.no_pipeline_parallel = TRUE,
                     !.pipeline_model_parallel_size = t[1],
                     !.virtual_pipeline_model_parallel_size = t[2],
                     !.is_first_stage = (t[1] = 1),
                     !.max_microbatches = nm] :
        k \in {<<TRUE, FALSE>>, <<FALSE, TRUE>>}, ds \in BOOLEAN,
        t \in {<<1, None>>, <<2, Some(2)>>}, nm \in {2, 3}}

\* The side-effect configurations: three iterations of a first pipeline
\* stage with auto-resume, evaluation and checkpoints on intervals that
\* differ, and with each of them switched off next to an interval that
\* divides the iteration.
SideEffectConfigs ==
    {[BaseCfg EXCEPT !.train_iters = 3, !.log_interval = 1,
                     !.max_microbatches = 1,
                     !.pipeline_model_parallel_size = 2,
                     !.is_last_stage = FALSE,
                     !.adlr_autoresume = x[1], !.adlr_autoresume_interval = x[2],
                     !.eval_interval = x[3], !.do_valid = x[4],
                     !.save = x[5], !.save_interval = x[6]] :
        x \in {<<TRUE, 2, 3, TRUE, TRUE, 1>>, <<TRUE, 3, 2, FALSE, FALSE, 2>>,
               <<FALSE, 1, 1, TRUE, TRUE, 0>>, <<TRUE, 1, 2, TRUE, TRUE, 3>>}}

\* The tensorboard configurations: two iterations on the last stage, with
\* and without a writer (get_tensorboard_writer() returns one on the last
\* rank only), every step or every second one, with the optional series
\* switched on and off.
TensorboardConfigs ==
    {[BaseCfg EXCEPT !.train_iters = 2, !.log_interval = 1,
                     !.max_microbatches = 1,
                     !.tensorboard_writer = x[1], !.is_last_rank = x[2],
                     !.tensorboard_log_interval = x[3],
                     !.log_learning_rate_to_tensorboard = x[4],
                     !.log_batch_size_to_tensorboard = x[5],
                     !.log_loss_scale_to_tensorboard = x[6],
                     !.log_params_norm = x[7],
                     !.log_timers_to_tensorboard = x[8]] :
        x \in {<<TRUE, TRUE, 1, TRUE, TRUE, TRUE, TRUE, TRUE>>,
               <<TRUE, TRUE, 2, TRUE, FALSE, FALSE, FALSE, FALSE>>,
               <<TRUE, TRUE, 2, FALSE, TRUE, TRUE, TRUE, FALSE>>,
               <<FALSE, TRUE, 1, TRUE, TRUE, TRUE, TRUE, TRUE>>,
               <<FALSE, FALSE, 1, TRUE, TRUE, FALSE, FALSE, FALSE>>}}

\* The token-limit configurations: a first pipeline stage whose steps add
\* 16384 tokens each, with limits a step reaches exactly, overshoots, and
\* that the first step passes; fresh and resumed.
TokenLimitConfigs ==
    {[BaseCfg EXCEPT !.train_iters = 3, !.log_interval = 1,
                     !.max_microbatches = 1,
                     !.pipeline_model_parallel_size = 2,
                     !.is_last_stage = FALSE,
                     !.start_iteration = st, !.train_tokens = Some(tt)] :
        st \in {0, 1}, tt \in {1, 16384, 20000}}

Configs ==
    StepConfigs \cup LoopConfigs \cup LengthConfigs \cup TopologyConfigs
        \cup TeacherConfigs \cup SideEffectConfigs \cup TensorboardConfigs
        \cup TokenLimitConfigs

\* ------------------------------------------------------------ Init, actions
NoStep ==
    [loss_dict |-> EmptyDict, skipped_iter |-> 0, grad_norm |-> None,
     num_zeros_in_grad |-> None]

\* What train() and the setup before it have not touched yet.
InitLocals(c) ==
    /\ cfg = c
    /\ consumed_train_tokens =
          c.start_iteration * NewSamples(c, c.max_microbatches) * c.seq_length
    /\ curriculum_seqlen = IF AnyCurriculum(c) THEN Some(c.seq_length) ELSE None
    /\ actual_seq_length = None
    /\ total_loss_dict = EmptyDict
    /\ lr_num_steps = 0
    /\ num_microbatches = NumMicrobatches(c, 0)
    /\ losses_reduced = <<>>
    /\ update_successful = TRUE
    /\ step_result = NoStep
    /\ log_string = None
    /\ total_iterations = 0
    /\ saved_checkpoint = FALSE
    /\ events = <<>>
    /\ retval = None
    /\ window_calls = 0
    /\ steps_executed = 0
    /\ reported = [iters |-> 0, skipped |-> 0, nan |-> 0]
    /\ all_ok = TRUE
    /\ random_ltd_reserved_length = None
    /\ unblended_seq_length = None
    /\ phases = <<>>
    /\ schedule = None
    /\ model_mode = "train"
    /\ eval_schedule = None
    /\ eval_passes = <<>>
    /\ window_totals = EmptyDict
    /\ grad_ops = <<>>
    /\ teacher_forward = TeacherForwardDefault
    /\ schedule_teacher_forward = None
    /\ curriculum_query = None
    /\ eval_entry_seqlen = None
    /\ eval_result = None
    /\ tb_scalars = {}
    /\ step_entry_tokens = None

\* The stages of pretrain(), in the order of its statements.
PretrainStages ==
    <<"initialize_megatron", "setup_model_and_optimizer",
      "build_train_valid_test_data_iterators", "train">>

\* train() up to the head of its loop: iteration = args.iteration,
\* total_loss_dict = {}.
InitTrain(c) ==
    /\ pc = "loop"
    /\ iteration = c.start_iteration
    /\ args_iteration = c.start_iteration
    /\ consumed_train_samples = c.start_iteration * NewSamples(c, c.max_microbatches)
    /\ consumed_valid_samples = 0
    /\ stages = PretrainStages
    /\ InitLocals(c)

NoRanks == <<>>

Init == \E c \in Configs : InitTrain(c) /\ rank = NoRanks

\* One pass through the body of train()'s while loop. An exception raised by
\* train_step or by evaluate leaves train() where it is raised.
TrainIteration ==
    /\ pc = "loop"
    /\ LoopGuard(cfg, iteration, consumed_train_tokens)
    /\ LET nm == NumMicrobatches(cfg, consumed_train_samples)
           it == iteration + 1
       IN \E losses \in ScheduleOutputs(cfg, nm), engine_loss \in EngineLosses(cfg),
             opt \in UpdateOutcomes, done \in DoneValues(cfg),
             reserved \in ReservedLengths(cfg),
             cur \in CurriculumChoices(cfg, args_iteration, curriculum_seqlen),
             fail \in (IF EvalGate(cfg, it) THEN EvalFailures(cfg) ELSE {0}),
             prof \in (IF EvalGate(cfg, it) THEN EvalProfiles(cfg) ELSE {"lm"}) :
          LET r    == train_step(cfg, nm, lr_num_steps, losses, engine_loss, opt)
              curv == IF cur = None THEN 0 ELSE cur[1]
              len  == ActualSeqLength(cfg, curv, reserved)
              log  == training_log(cfg, total_loss_dict, r.loss_dict, it, r.skipped_iter)
              ev   == IF EvalGate(cfg, it)
                      THEN evaluate(cfg, nm, it, cur, consumed_valid_samples, fail,
                                    prof)
                      ELSE NoEvaluate(cur, consumed_valid_samples, model_mode,
                                      eval_schedule, eval_passes, eval_entry_seqlen,
                                      eval_result)
          IN  /\ num_microbatches' = nm
              /\ losses_reduced' = losses
              /\ update_successful' = r.updated
              /\ lr_num_steps' = r.lr
              /\ steps_executed' = steps_executed + 1
              /\ phases' = r.phases
              /\ grad_ops' = r.grad_ops
              /\ curriculum_query' = CurriculumQuery(cfg, args_iteration)
              /\ schedule_teacher_forward' =
                    IF ScheduleCalled(cfg, nm)
                    THEN Some(TeacherFlagDuringSchedule(cfg, teacher_forward))
                    ELSE None
              /\ teacher_forward' =
                    IF ScheduleCalled(cfg, nm)
                    THEN TeacherFlagAfterSchedule(
                             cfg, TeacherFlagDuringSchedule(cfg, teacher_forward))
                    ELSE teacher_forward
              /\ schedule' = r.schedule
              /\ step_entry_tokens' = Some(consumed_train_tokens)
              /\ IF r.err
                 THEN /\ pc' = "error"
                      /\ curriculum_seqlen' = cur
                      /\ UNCHANGED <<iteration, args_iteration, consumed_train_samples,
                                     consumed_train_tokens, consumed_valid_samples,
                                     actual_seq_length, total_loss_dict, step_result,
                                     log_string, total_iterations, saved_checkpoint,
                                     events, window_calls, reported, all_ok,
                                     random_ltd_reserved_length, unblended_seq_length,
                                     model_mode, eval_schedule, eval_passes,
                                     window_totals, eval_entry_seqlen, eval_result,
                                     tb_scalars>>
                 ELSE /\ pc' = IF ev.err THEN "error" ELSE NextPc(cfg, it, done)
                      /\ step_result' = [loss_dict |-> r.loss_dict,
                                         skipped_iter |-> r.skipped_iter,
                                         grad_norm |-> r.grad_norm,
                                         num_zeros_in_grad |-> r.num_zeros_in_grad]
                      /\ iteration' = it
                      /\ args_iteration' = it
                      /\ consumed_train_samples' =
                            consumed_train_samples + NewSamples(cfg, nm)
                      /\ unblended_seq_length' = Some(UnblendedSeqLength(cfg, curv))
                      /\ random_ltd_reserved_length' =
                            IF cfg.random_ltd THEN Some(reserved)
                            ELSE random_ltd_reserved_length
                      /\ actual_seq_length' = Some(len)
                      /\ consumed_train_tokens' =
                            consumed_train_tokens + TokensAdded(cfg, nm, len)
                      /\ total_loss_dict' = log.total_loss_dict
                      /\ window_totals' = log.updated
                      /\ total_iterations' = log.total_iterations
                      /\ log_string' = log.log_string
                      /\ tb_scalars' =
                            IF TensorboardGate(cfg, it)
                            THEN TensorboardScalars(
                                     cfg, it, consumed_train_samples + NewSamples(cfg, nm),
                                     consumed_train_tokens + TokensAdded(cfg, nm, len),
                                     r.loss_dict, r.grad_norm, r.num_zeros_in_grad,
                                     ParamsNorm(cfg))
                            ELSE {}
                      /\ window_calls' =
                            IF AtLogBoundary(cfg, it) THEN 0 ELSE window_calls + 1
                      /\ reported' =
                            IF AtLogBoundary(cfg, it)
                            THEN [iters |-> reported.iters + log.total_iterations,
                                  skipped |-> reported.skipped + log.log_string[1].skipped,
                                  nan |-> reported.nan + log.log_string[1].nan]
                            ELSE reported
                      /\ all_ok' = (all_ok /\ opt.success /\ AllFinite(losses, engine_loss))
                      /\ consumed_valid_samples' = ev.consumed_valid_samples
                      /\ curriculum_seqlen' = ev.curriculum_seqlen
                      /\ model_mode' = ev.model_mode
                      /\ eval_schedule' = ev.schedule
                      /\ eval_passes' = ev.passes
                      /\ eval_entry_seqlen' = ev.entry_seqlen
                      /\ eval_result' = ev.result
                      /\ saved_checkpoint' =
                            IF ev.err THEN saved_checkpoint ELSE SaveGate(cfg, it)
                      /\ events' = <<"train_step", "training_log">>
                                      \o (IF ev.err THEN CallsUpToEvaluate(cfg, it)
                                          ELSE SideEffects(cfg, it, done))
    /\ UNCHANGED <<cfg, retval, rank, stages>>

\* The loop guard is false: return iteration.
TrainReturn ==
    /\ pc = "loop"
    /\ ~LoopGuard(cfg, iteration, consumed_train_tokens)
    /\ pc' = "returned"
    /\ retval' = Some(iteration)
    /\ UNCHANGED <<cfg, iteration, args_iteration, consumed_train_samples,
                   consumed_train_tokens, consumed_valid_samples, curriculum_seqlen,
                   actual_seq_length, total_loss_dict, lr_num_steps, num_microbatches,
                   losses_reduced, update_successful, step_result, log_string,
                   total_iterations, saved_checkpoint, events, window_calls,
                   steps_executed, reported, all_ok, rank,
                   random_ltd_reserved_length, unblended_seq_length, phases,
                   schedule, model_mode, eval_schedule, eval_passes, window_totals,
                   stages, grad_ops, teacher_forward, schedule_teacher_forward,
                   curriculum_query, eval_entry_seqlen, eval_result, tb_scalars,
                   step_entry_tokens>>

\* pretrain() after train(): if args.do_valid, evaluate_and_print_results on
\* the validation data ("the end of training for val data").
PretrainEvaluate ==
    /\ pc = "returned"
    /\ cfg.do_valid
    /\ \E fail \in EvalFailures(cfg), prof \in EvalProfiles(cfg) :
          LET ev == evaluate(cfg, num_microbatches, args_iteration, curriculum_seqlen,
                             consumed_valid_samples, fail, prof)
          IN  /\ pc' = IF ev.err THEN "error" ELSE "done"
              /\ consumed_valid_samples' = ev.consumed_valid_samples
              /\ curriculum_seqlen' = ev.curriculum_seqlen
              /\ model_mode' = ev.model_mode
              /\ eval_schedule' = ev.schedule
              /\ eval_passes' = ev.passes
              /\ eval_entry_seqlen' = ev.entry_seqlen
              /\ eval_result' = ev.result
              /\ events' = <<"evaluate">>
    /\ UNCHANGED <<cfg, iteration, args_iteration, consumed_train_samples,
                   consumed_train_tokens, actual_seq_length, total_loss_dict,
                   lr_num_steps, num_microbatches, losses_reduced, update_successful,
                   step_result, log_string, total_iterations, saved_checkpoint,
                   retval, window_calls, steps_executed, reported, all_ok, rank,
                   random_ltd_reserved_length, unblended_seq_length, phases,
                   schedule, window_totals, stages, grad_ops, teacher_forward,
                   schedule_teacher_forward, curriculum_query, tb_scalars,
                   step_entry_tokens>>

Next == TrainIteration \/ TrainReturn \/ PretrainEvaluate

Spec == Init /\ [][Next]_vars

\* ------------------------------------------- train() on every rank (SpecRanks)
\* Each rank runs train() under the same configuration; rank[r] is rank r's
\* position and locals. The cluster-wide collectives of train() are the two
\* barriers of save_checkpoint_and_time, the MAX all-reduce of the duration
\* flag and the barrier of the exit-interval path. A rank that enters a
\* collective waits in it until every rank has entered a collective of the
\* same operation.
Ranks == 1..NumRanks

trainVars == <<pc, iteration, args_iteration, consumed_train_samples,
               consumed_train_tokens, consumed_valid_samples, curriculum_seqlen,
               actual_seq_length, total_loss_dict, lr_num_steps, num_microbatches,
               losses_reduced, update_successful, step_result, log_string,
               total_iterations, saved_checkpoint, events, retval, window_calls,
               steps_executed, reported, all_ok, random_ltd_reserved_length,
               unblended_seq_length, phases, schedule, model_mode, eval_schedule,
               eval_passes, window_totals, stages, grad_ops, teacher_forward,
               schedule_teacher_forward, curriculum_query, eval_entry_seqlen,
               eval_result, tb_scalars, step_entry_tokens>>

\* trainVars without pc and stages.
trainVarsButPcStages ==
    <<iteration, args_iteration, consumed_train_samples,
      consumed_train_tokens, consumed_valid_samples, curriculum_seqlen,
      actual_seq_length, total_loss_dict, lr_num_steps, num_microbatches,
      losses_reduced, update_successful, step_result, log_string,
      total_iterations, saved_checkpoint, events, retval, window_calls,
      steps_executed, reported, all_ok, random_ltd_reserved_length,
      unblended_seq_length, phases, schedule, model_mode, eval_schedule,
      eval_passes, window_totals, grad_ops, teacher_forward,
      schedule_teacher_forward, curriculum_query, eval_entry_seqlen,
      eval_result, tb_scalars, step_entry_tokens, rank>>

\* The operation of a collective call site.
CollectiveOp(site) == IF site = "all_reduce" THEN "all_reduce" ELSE "barrier"

\* Where a rank continues when the collective it waits in completes.
AfterCollective(site) ==
    IF site = "save_barrier_1" THEN "save_write"
    ELSE IF site = "save_barrier_2" THEN "save_done"
    ELSE IF site = "all_reduce" THEN "duration_done"
    ELSE "exit_now"

RECURSIVE MaxOver(_, _)
\* ReduceOp.MAX over the ranks' contributions.
MaxOver(f, S) ==
    IF S = {} THEN 0
    ELSE LET x == CHOOSE y \in S : TRUE IN Max(f[x], MaxOver(f, S \ {x}))

RECURSIVE MinOver(_, _)
MinOver(f, S) ==
    IF S = {} THEN 1
    ELSE LET x == CHOOSE y \in S : TRUE IN Min(f[x], MinOver(f, S \ {x}))

\* Mutant of AllReduceDone: the flags reduced with MIN.
AllReduceMin(contrib) == MinOver(contrib, DOMAIN contrib)

\* torch.distributed.all_reduce(done_cuda, op=ReduceOp.MAX): what every rank
\* holds afterwards, given each rank's contribution.
AllReduceDone(contrib) == MaxOver(contrib, DOMAIN contrib)

\* Mutant of DoneFlag: the rank acts on its own flag, not on the reduced one.
DoneFlagLocal(local, reduced) == local

\* The flag a rank acts on after the all-reduce: done = done_cuda.item()
DoneFlag(local, reduced) == reduced

InitRank(c) ==
    [pc |-> "loop", waiting |-> "none", iteration |-> c.start_iteration,
     tokens |-> 0, saved_checkpoint |-> FALSE, after_save |-> "periodic",
     local |-> 0, done |-> 0, done_iteration |-> 0,
     flags |-> <<>>, calls |-> <<>>, saves |-> <<>>, exit_path |-> "none"]

\* The configurations of SpecRanks: periodic checkpoints, the duration check
\* and the exit interval, alone and together.
RankConfigs ==
    {[BaseCfg EXCEPT !.train_iters = ti, !.max_microbatches = 1,
                     !.save = x[1], !.save_interval = x[2],
                     !.exit_interval = x[3], !.exit_duration_in_mins = x[4]] :
        ti \in {MaxIters - 1, MaxIters},
        x \in {<<FALSE, 0, 0, 30>>, <<TRUE, 2, 0, 30>>, <<TRUE, 1, 2, 0>>,
               <<FALSE, 0, 2, 0>>, <<TRUE, 2, 3, 30>>, <<TRUE, 1, 0, 0>>}}

InitRanks ==
    \E c \in RankConfigs : InitTrain(c) /\ rank = [r \in Ranks |-> InitRank(c)]

Enter(s, site) ==
    [s EXCEPT !.pc = "wait", !.waiting = site, !.calls = Append(@, site)]

\* The loop head and the body up to "saved_checkpoint = False" and the
\* periodic checkpoint's gate.
RankIterate(r) ==
    LET s == rank[r] IN
    /\ s.pc = "loop"
    /\ LoopGuard(cfg, s.iteration, s.tokens)
    /\ rank' = [rank EXCEPT ![r] =
          [s EXCEPT !.iteration = s.iteration + 1,
                    !.tokens = s.tokens + TokensAdded(cfg, 1, cfg.seq_length),
                    !.saved_checkpoint = FALSE,
                    !.after_save = "periodic",
                    !.pc = IF SaveGate(cfg, s.iteration + 1) THEN "save"
                           ELSE "duration"]]
    /\ UNCHANGED <<cfg, trainVars>>

\* The loop guard is false on rank r: train() returns.
RankReturn(r) ==
    LET s == rank[r] IN
    /\ s.pc = "loop"
    /\ ~LoopGuard(cfg, s.iteration, s.tokens)
    /\ rank' = [rank EXCEPT ![r] = [s EXCEPT !.pc = "returned"]]
    /\ UNCHANGED <<cfg, trainVars>>

\* save_checkpoint_and_time: the first barrier.
RankSaveEnter(r) ==
    LET s == rank[r] IN
    /\ s.pc = "save"
    /\ rank' = [rank EXCEPT ![r] = Enter(s, "save_barrier_1")]
    /\ UNCHANGED <<cfg, trainVars>>

\* save_checkpoint_and_time: save_checkpoint, then the second barrier.
RankSaveWrite(r) ==
    LET s == rank[r] IN
    /\ s.pc = "save_write"
    /\ rank' = [rank EXCEPT ![r] =
          Enter([s EXCEPT !.saves = Append(@, s.iteration)], "save_barrier_2")]
    /\ UNCHANGED <<cfg, trainVars>>

\* Mutant of ExitIntervalTail: sys.exit() without the barrier.
ExitIntervalTailNoBarrier(s) == [s EXCEPT !.pc = "exit_now"]

\* The exit-interval path after its save: torch.distributed.barrier(), then
\* sys.exit().
ExitIntervalTail(s) == [s EXCEPT !.pc = "exit_barrier"]

\* save_checkpoint_and_time returns to its caller in train().
RankSaveDone(r) ==
    LET s == rank[r] IN
    /\ s.pc = "save_done"
    /\ rank' = [rank EXCEPT ![r] =
          IF s.after_save = "periodic"
          THEN [s EXCEPT !.saved_checkpoint = TRUE, !.pc = "duration"]
          ELSE IF s.after_save = "duration"
          THEN [s EXCEPT !.pc = "exited", !.exit_path = "duration"]
          ELSE ExitIntervalTail(s)]
    /\ UNCHANGED <<cfg, trainVars>>

\* "Exiting based on duration": the rank's own train_time > exit_duration_in_mins
\* and the all-reduce of it.
RankDurationCheck(r) ==
    LET s == rank[r] IN
    /\ s.pc = "duration"
    /\ IF DurationGate(cfg)
       THEN \E flag \in {0, 1} :
              rank' = [rank EXCEPT ![r] =
                 Enter([s EXCEPT !.local = flag,
                                 !.flags = Append(@, <<s.iteration, flag>>)],
                       "all_reduce")]
       ELSE rank' = [rank EXCEPT ![r] = [s EXCEPT !.pc = "exit_interval"]]
    /\ UNCHANGED <<cfg, trainVars>>

\* if done: save when not saved in this iteration, then sys.exit().
RankDurationDecide(r) ==
    LET s == rank[r] IN
    /\ s.pc = "duration_done"
    /\ rank' = [rank EXCEPT ![r] =
          IF s.done = 0 THEN [s EXCEPT !.pc = "exit_interval"]
          ELSE IF ExitSave(s.saved_checkpoint) # <<>>
          THEN [s EXCEPT !.pc = "save", !.after_save = "duration"]
          ELSE [s EXCEPT !.pc = "exited", !.exit_path = "duration"]]
    /\ UNCHANGED <<cfg, trainVars>>

\* "Exiting based on iterations".
RankExitInterval(r) ==
    LET s == rank[r] IN
    /\ s.pc = "exit_interval"
    /\ rank' = [rank EXCEPT ![r] =
          IF ~ExitIntervalGate(cfg, s.iteration) THEN [s EXCEPT !.pc = "loop"]
          ELSE IF ExitSave(s.saved_checkpoint) # <<>>
          THEN [s EXCEPT !.pc = "save", !.after_save = "interval"]
          ELSE ExitIntervalTail(s)]
    /\ UNCHANGED <<cfg, trainVars>>

\* The barrier of the exit-interval path.
RankExitBarrier(r) ==
    LET s == rank[r] IN
    /\ s.pc = "exit_barrier"
    /\ rank' = [rank EXCEPT ![r] = Enter(s, "exit_barrier")]
    /\ UNCHANGED <<cfg, trainVars>>

\* sys.exit() of the exit-interval path.
RankExit(r) ==
    LET s == rank[r] IN
    /\ s.pc = "exit_now"
    /\ rank' = [rank EXCEPT ![r] = [s EXCEPT !.pc = "exited", !.exit_path = "interval"]]
    /\ UNCHANGED <<cfg, trainVars>>

\* Every rank waits in a collective of the same operation: the collective
\* completes, and an all-reduce hands every rank the MAX of the contributions.
CollectiveComplete ==
    /\ \A r \in Ranks : rank[r].pc = "wait"
    /\ \A r, q \in Ranks : CollectiveOp(rank[r].waiting) = CollectiveOp(rank[q].waiting)
    /\ LET reduced == AllReduceDone([r \in Ranks |-> rank[r].local])
       IN  rank' = [r \in Ranks |->
              LET s == rank[r] IN
              IF s.waiting = "all_reduce"
              THEN [s EXCEPT !.pc = AfterCollective(s.waiting), !.waiting = "none",
                             !.done = DoneFlag(s.local, reduced),
                             !.done_iteration = s.iteration]
              ELSE [s EXCEPT !.pc = AfterCollective(s.waiting), !.waiting = "none"]]
    /\ UNCHANGED <<cfg, trainVars>>

NextRanks ==
    \/ \E r \in Ranks :
          \/ RankIterate(r)
          \/ RankReturn(r)
          \/ RankSaveEnter(r)
          \/ RankSaveWrite(r)
          \/ RankSaveDone(r)
          \/ RankDurationCheck(r)
          \/ RankDurationDecide(r)
          \/ RankExitInterval(r)
          \/ RankExitBarrier(r)
          \/ RankExit(r)
    \/ CollectiveComplete

SpecRanks == InitRanks /\ [][NextRanks]_vars

\* ------------------- build_train_valid_test_data_iterators (SpecResume)
\* The counters a checkpoint restored, as the function finds them.
ResumeIterations == {0, 1, 100}
ResumeTrainSamples == {0, 64}
ResumeValidSamples == {0, 32}

\* The configurations of SpecResume: the global batch size, iteration-based
\* or sample-based training, the evaluation interval, the rank's place in its
\* tensor-parallel group.
ResumeConfigs ==
    {[BaseCfg EXCEPT !.global_batch_size = x[1], !.train_samples = x[2],
                     !.eval_interval = ei, !.tensor_rank_0 = tr] :
        x \in {<<16, None>>, <<32, None>>, <<32, Some(6400)>>},
        ei \in {0, 10, 1000}, tr \in BOOLEAN}

\* Mutant of ResumedTrainSamples: the counter is rebuilt whatever it holds.
ResumedTrainSamplesAlways(c, it, consumed) ==
    IF it > 0 THEN it * c.global_batch_size ELSE consumed

\* "Backward compatibility, assume fixed batch size": args.consumed_train_samples
\* after the first if.
ResumedTrainSamples(c, it, consumed) ==
    IF it > 0 /\ consumed = 0 THEN it * c.global_batch_size ELSE consumed

\* args.consumed_valid_samples after the second if (eval_interval is not 0).
ResumedValidSamples(c, it, consumed) ==
    IF it > 0 /\ consumed = 0
    THEN (it \div c.eval_interval) * c.eval_iters * c.global_batch_size
    ELSE consumed

\* build_train_valid_test_data_iterators up to the sizes of the datasets: the
\* two counters it leaves behind and whether an exception left the call, the
\* asserts of the two ifs (train_samples is None) and the divisions by
\* args.eval_interval being what can raise.
build_train_valid_test_data_iterators(c, it, train, valid) ==
    IF it > 0 /\ train = 0 /\ c.train_samples # None
    THEN [err |-> TRUE, consumed_train_samples |-> train,
          consumed_valid_samples |-> valid]
    ELSE IF it > 0 /\ valid = 0 /\ (c.train_samples # None \/ c.eval_interval = 0)
    THEN [err |-> TRUE, consumed_train_samples |-> ResumedTrainSamples(c, it, train),
          consumed_valid_samples |-> valid]
    ELSE [err |-> c.tensor_rank_0 /\ c.eval_interval = 0,
          consumed_train_samples |-> ResumedTrainSamples(c, it, train),
          consumed_valid_samples |-> ResumedValidSamples(c, it, valid)]

InitResume ==
    \E c \in ResumeConfigs, it \in ResumeIterations,
       train \in ResumeTrainSamples, valid \in ResumeValidSamples :
        /\ pc = "build"
        /\ iteration = 0
        /\ args_iteration = it
        /\ consumed_train_samples = train
        /\ consumed_valid_samples = valid
        /\ stages = SubSeq(PretrainStages, 1, 2)
        /\ InitLocals(c)
        /\ rank = NoRanks

\* pretrain() calls build_train_valid_test_data_iterators.
BuildDataIterators ==
    /\ pc = "build"
    /\ LET b == build_train_valid_test_data_iterators(
                    cfg, args_iteration, consumed_train_samples, consumed_valid_samples)
       IN  /\ pc' = IF b.err THEN "error" ELSE "built"
           /\ consumed_train_samples' = b.consumed_train_samples
           /\ consumed_valid_samples' = b.consumed_valid_samples
           /\ stages' = Append(stages, "build_train_valid_test_data_iterators")
    /\ UNCHANGED <<cfg, iteration, args_iteration, consumed_train_tokens,
                   curriculum_seqlen, actual_seq_length, total_loss_dict,
                   lr_num_steps, num_microbatches, losses_reduced, update_successful,
                   step_result, log_string, total_iterations, saved_checkpoint,
                   events, retval, window_calls, steps_executed, reported, all_ok,
                   rank, random_ltd_reserved_length, unblended_seq_length, phases,
                   schedule, model_mode, eval_schedule, eval_passes, window_totals,
                   grad_ops, teacher_forward, schedule_teacher_forward,
                   curriculum_query, eval_entry_seqlen, eval_result, tb_scalars,
                   step_entry_tokens>>

NextResume == BuildDataIterators

SpecResume == InitResume /\ [][NextResume]_vars

\* ------------------------------------------------- pretrain() (SpecPretrain)
\* Mutant of get_model: the model is returned whatever the DDP choice is.
get_model_unchecked(c) == [err |-> FALSE]

\* get_model: with args.deepspeed the model is returned before the DDP
\* wrappers; otherwise 'torch' and 'local' return the wrapped model and any
\* other choice raises NotImplementedError.
get_model(c) ==
    [err |-> ~c.deepspeed /\ c.DDP_impl \notin {"torch", "local"}]

\* update_train_iters with a constant batch size (rampup_batch_size is None):
\* args.train_iters = args.train_samples // args.global_batch_size
update_train_iters(c) ==
    IF c.train_iters # 0 THEN c.train_iters
    ELSE c.train_samples[1] \div c.global_batch_size

\* get_learning_rate_scheduler: if args.train_iters ... elif
\* args.train_samples ... else raise Exception; the sample-based branch sets
\* args.train_iters.
get_learning_rate_scheduler(c) ==
    IF c.train_iters # 0 THEN [err |-> FALSE, train_iters |-> c.train_iters]
    ELSE IF c.train_samples # None /\ c.train_samples[1] # 0
    THEN [err |-> FALSE, train_iters |-> update_train_iters(c)]
    ELSE [err |-> TRUE, train_iters |-> c.train_iters]

\* setup_model_and_optimizer: whether an exception left the call and
\* args.train_iters as the call leaves it. The scheduler is built unless
\* args.inference; the engine's data-efficiency branch divides by
\* args.eval_interval on tensor rank 0; the assert after the checkpoint is
\* loaded wants local DDP for several partitions or stages.
setup_model_and_optimizer(c) ==
    LET m  == get_model(c)
        lr == IF c.inference THEN [err |-> FALSE, train_iters |-> c.train_iters]
              ELSE get_learning_rate_scheduler(c)
        failed == [err |-> TRUE, train_iters |-> c.train_iters]
    IN  IF m.err THEN failed
        ELSE IF lr.err THEN failed
        ELSE IF /\ c.deepspeed /\ c.data_efficiency_curriculum_learning
                /\ c.tensor_rank_0 /\ c.eval_interval = 0
        THEN [err |-> TRUE, train_iters |-> lr.train_iters]
        ELSE [err |-> /\ ModelPartitions(c) > 1 \/ c.pipeline_model_parallel_size > 1
                      /\ c.DDP_impl # "local",
              train_iters |-> lr.train_iters]

\* Mutant of TrainGate: do_train is not looked at.
TrainGateIgnoresDoTrain(c) == c.train_iters > 0

\* if args.do_train and args.train_iters > 0
TrainGate(c) == c.do_train /\ c.train_iters > 0

\* The configurations of SpecPretrain, fresh runs (no checkpoint to load):
\* the DDP choices with one that is neither 'torch' nor 'local', train_iters
\* given (1), derived from train_samples (16 samples, one batch; 8 samples,
\* none) or missing (0 and None), with and without the external engine,
\* args.inference (which never trains) and do_train, one or two pipeline
\* stages.
PretrainConfigs ==
    {[BaseCfg EXCEPT !.deepspeed = ds, !.DDP_impl = ddp,
                     !.no_pipeline_parallel = ds,
                     !.train_iters = n[1], !.train_samples = n[2],
                     !.inference = m[1], !.do_train = m[2],
                     !.pipeline_model_parallel_size = pp,
                     !.is_last_stage = (pp = 1),
                     !.max_microbatches = 1, !.log_interval = 1,
                     !.eval_interval = 10, !.do_valid = TRUE] :
        ds \in BOOLEAN, ddp \in {"local", "torch", "unknown"},
        n \in {<<1, None>>, <<0, Some(16)>>, <<0, Some(8)>>, <<0, None>>},
        m \in {<<FALSE, TRUE>>, <<FALSE, FALSE>>, <<TRUE, FALSE>>},
        pp \in {1, 2}}

\* pretrain() before its first statement.
InitPretrain ==
    \E c \in PretrainConfigs :
        /\ pc = "start"
        /\ iteration = 0
        /\ args_iteration = 0
        /\ consumed_train_samples = 0
        /\ consumed_valid_samples = 0
        /\ stages = <<>>
        /\ InitLocals(c)
        /\ rank = NoRanks

\* initialize_megatron(...), args = get_args().
InitializeMegatron ==
    /\ pc = "start"
    /\ pc' = "setup"
    /\ stages' = Append(stages, "initialize_megatron")
    /\ UNCHANGED <<cfg, trainVarsButPcStages>>

\* model, optimizer, lr_scheduler = setup_model_and_optimizer(...); without a
\* checkpoint to load args.iteration = 0.
SetupModelAndOptimizer ==
    /\ pc = "setup"
    /\ LET r == setup_model_and_optimizer(cfg)
       IN  /\ pc' = IF r.err THEN "error" ELSE "build"
           /\ cfg' = [cfg EXCEPT !.train_iters = r.train_iters]
    /\ stages' = Append(stages, "setup_model_and_optimizer")
    /\ UNCHANGED trainVarsButPcStages

\* if args.do_train and args.train_iters > 0: iteration = train(...), up to
\* the head of train()'s loop.
PretrainTrain ==
    /\ pc = "built"
    /\ TrainGate(cfg)
    /\ pc' = "loop"
    /\ stages' = Append(stages, "train")
    /\ UNCHANGED <<cfg, trainVarsButPcStages>>

\* iteration = 0, and train() is not called.
PretrainSkipTrain ==
    /\ pc = "built"
    /\ ~TrainGate(cfg)
    /\ pc' = "returned"
    /\ UNCHANGED <<cfg, stages, trainVarsButPcStages>>

NextPretrain ==
    \/ InitializeMegatron
    \/ SetupModelAndOptimizer
    \/ BuildDataIterators
    \/ PretrainTrain
    \/ PretrainSkipTrain
    \/ TrainIteration
    \/ TrainReturn
    \/ PretrainEvaluate

SpecPretrain == InitPretrain /\ [][NextPretrain]_vars

\* ================================================================== claims
\* A training step was executed in this step of the behaviour, and train_step
\* returned (no exception left it), so that training_log was called.
Stepped == iteration' = iteration + 1
Flagged(v) == v.k \in {"inf", "ninf", "nan"}
Counter(tld, key) == IF key \in DOMAIN tld THEN tld[key] ELSE 0

\* C1: after N training_log calls with no interval reset among them,
\* 'advanced iterations' + 'skipped iterations' = N, and each such call
\* increases exactly one of the two counters, by exactly one.
C1_AdvancedPlusSkipped ==
    /\ [](Counter(total_loss_dict, "advanced iterations")
            + Counter(total_loss_dict, "skipped iterations") = window_calls)
    /\ [][(Stepped /\ iteration' % cfg.log_interval # 0) =>
            LET a  == Counter(total_loss_dict, "advanced iterations")
                k  == Counter(total_loss_dict, "skipped iterations")
                a2 == Counter(total_loss_dict', "advanced iterations")
                k2 == Counter(total_loss_dict', "skipped iterations")
            IN  /\ step_result'.skipped_iter \in {0, 1}
                /\ IF step_result'.skipped_iter = 1
                   THEN a2 = a /\ k2 = k + 1
                   ELSE a2 = a + 1 /\ k2 = k]_vars

\* C1 witness: a window of two calls, one advanced and one skipped.
C1_Witness ==
    /\ window_calls = 2
    /\ Counter(total_loss_dict, "advanced iterations") = 1
    /\ Counter(total_loss_dict, "skipped iterations") = 1

\* C2: on the local path the scheduler is stepped, once and by
\* num_microbatches * micro_batch_size * data_parallel_size, exactly in the
\* steps whose update succeeded, and skipped_iter is 0 for those and 1 for
\* the others.
C2_LrSteppedIffSuccess ==
    [][(steps_executed' = steps_executed + 1 /\ ~cfg.deepspeed) =>
          IF update_successful'
          THEN /\ lr_num_steps' = lr_num_steps
                     + num_microbatches' * cfg.micro_batch_size * cfg.data_parallel_size
               /\ (Stepped => step_result'.skipped_iter = 0)
          ELSE /\ lr_num_steps' = lr_num_steps
               /\ (Stepped => step_result'.skipped_iter = 1)]_vars

\* C2 witness: a failed local update after a successful one: the scheduler
\* holds the one increment of the successful step.
C2_Witness ==
    /\ ~cfg.deepspeed
    /\ steps_executed = 2
    /\ ~update_successful
    /\ step_result.skipped_iter = 1
    /\ lr_num_steps = 2 * 4 * 2

\* C3 (as claimed): whenever the update of a step fails, on the local path or
\* on the external-engine path, train_step returns skipped_iter = 1.
C3_FailedUpdateIsSkipped ==
    (steps_executed > 0 /\ pc # "error" /\ ~update_successful)
        => step_result.skipped_iter = 1

TotalSkipped == reported.skipped + Counter(total_loss_dict, "skipped iterations")
TotalNan == reported.nan + Counter(total_loss_dict, "nan iterations")
TotalAdvanced ==
    (reported.iters - reported.skipped) + Counter(total_loss_dict, "advanced iterations")

\* The run of C7: from iteration 0 to train_iters = 3, no evaluation, no
\* checkpoint, no token, duration or exit-interval limit.
ThreeIterationRun ==
    /\ cfg.start_iteration = 0 /\ cfg.train_iters = 3
    /\ cfg.eval_interval = 0 /\ ~cfg.save
    /\ cfg.train_tokens = None
    /\ cfg.exit_duration_in_mins = 0 /\ cfg.exit_interval = 0

\* C7: the three-iteration run in which every update succeeds with finite
\* losses executes exactly 3 steps, records 3 advanced, 0 skipped and 0 nan
\* iterations in total, and returns 3.
C7_ThreeIterations ==
    (ThreeIterationRun /\ all_ok /\ pc = "returned") =>
        /\ steps_executed = 3
        /\ TotalAdvanced = 3 /\ TotalSkipped = 0 /\ TotalNan = 0
        /\ retval = <<3>>

\* C7 witness: such a run has returned, on the local path with a logging
\* interval that leaves the last window open.
C7_Witness ==
    /\ ThreeIterationRun /\ all_ok /\ pc = "returned"
    /\ ~cfg.deepspeed /\ cfg.is_last_stage /\ cfg.log_interval = 2
    /\ retval = <<3>>

\* The loop condition, on the state.
GuardHolds ==
    /\ iteration < cfg.train_iters
    /\ IF cfg.train_tokens = <<>> THEN TRUE
       ELSE consumed_train_tokens < cfg.train_tokens[1]

\* C8: a training step is executed only from a state where the loop condition
\* holds; while it holds, what train() does next at the head of its loop is a
\* training step; and train() returns only when it is false, with the
\* iteration count, which equals args.iteration.
C8_LoopGuard ==
    /\ [][steps_executed' # steps_executed => GuardHolds]_vars
    /\ [][(pc = "loop" /\ GuardHolds) => steps_executed' = steps_executed + 1]_vars
    /\ [](pc = "returned" =>
            /\ ~GuardHolds
            /\ retval = <<iteration>>
            /\ iteration = args_iteration)

\* C8 witness: train() returned because of the token limit, before train_iters.
C8_Witness ==
    /\ pc = "returned"
    /\ cfg.train_tokens # <<>>
    /\ iteration < cfg.train_iters
    /\ steps_executed = 2
    /\ retval = <<iteration>>

RECURSIVE NumeratorSum(_, _, _)
\* The sum of the integer values the first n microbatches report for key.
NumeratorSum(lr, key, n) ==
    IF n = 0 THEN 0 ELSE NumeratorSum(lr, key, n - 1) + lr[n][key].n

\* The rank of this configuration gets the microbatches' losses.
AveragingRank == IF cfg.deepspeed THEN ~cfg.ds_pipeline_enabled ELSE cfg.is_last_stage

\* C9: on a rank that averages, for every key every microbatch of the step
\* reports with a finite value, the returned mapping holds the arithmetic
\* mean: value * number of microbatches = sum of the microbatches' values.
C9_AveragedLossIsMean ==
    (steps_executed > 0 /\ pc # "error" /\ AveragingRank) =>
        \A key \in {"lm loss", "moe loss"} :
            (\A i \in 1..Len(losses_reduced) :
                /\ key \in DOMAIN losses_reduced[i]
                /\ losses_reduced[i][key].k = "fin"
                /\ losses_reduced[i][key].d = 1)
            => /\ Len(losses_reduced) = num_microbatches
               /\ key \in DOMAIN step_result.loss_dict
               /\ step_result.loss_dict[key].k = "fin"
               /\ step_result.loss_dict[key].n * Len(losses_reduced)
                    = NumeratorSum(losses_reduced, key, Len(losses_reduced))
                        * step_result.loss_dict[key].d

\* C9 witness: two microbatches with losses 1 and 2 average to 3/2.
C9_Witness ==
    /\ steps_executed > 0 /\ pc # "error" /\ AveragingRank
    /\ Len(losses_reduced) = 2
    /\ losses_reduced[1]["lm loss"] # losses_reduced[2]["lm loss"]
    /\ step_result.loss_dict = [key \in {"lm loss"} |-> [k |-> "fin", n |-> 3, d |-> 2]]

\* C10: without curriculum and without random-LTD every iteration adds
\* new_samples * seq_length to consumed_train_tokens, new_samples being
\* data_parallel_size * micro_batch_size * the step's number of microbatches.
C10_TokensPerIteration ==
    [][(Stepped /\ ~cfg.curriculum_learning_legacy
                /\ ~cfg.data_efficiency_curriculum_learning /\ ~cfg.random_ltd) =>
          /\ consumed_train_samples' - consumed_train_samples
                = cfg.data_parallel_size * cfg.micro_batch_size * num_microbatches'
          /\ consumed_train_tokens' - consumed_train_tokens
                = (consumed_train_samples' - consumed_train_samples) * cfg.seq_length]_vars

\* C10 witness: seq_length 2048 and a sample delta of 16 added 32768 tokens.
C10_Witness ==
    /\ cfg.seq_length = 2048
    /\ ~cfg.curriculum_learning_legacy
    /\ ~cfg.data_efficiency_curriculum_learning /\ ~cfg.random_ltd
    /\ cfg.start_iteration = 0 /\ iteration = 1
    /\ consumed_train_samples = 16
    /\ consumed_train_tokens = 32768

\* --------------------------- the sequence length of a step (SpecBlend)
\* The "actual_seq_length" statements of train() on their own, for every
\* number of layers up to MaxLayers, every number of random-LTD layers among
\* them, every un-blended length up to MaxLen and every reserved length the
\* random-LTD scheduler may report, shorter than the un-blended length or not.
BlendConfigs ==
    {[BaseCfg EXCEPT !.random_ltd = TRUE, !.deepspeed = TRUE,
                     !.num_layers = n, !.random_ltd_layer_num = k,
                     !.seq_length = len] :
        n \in 1..MaxLayers, k \in 0..MaxLayers, len \in 1..MaxLen}

InitBlend ==
    \E c \in {x \in BlendConfigs : x.random_ltd_layer_num <= x.num_layers} :
        /\ pc = "blend"
        /\ iteration = 0
        /\ args_iteration = 0
        /\ consumed_train_samples = 0
        /\ consumed_valid_samples = 0
        /\ stages = PretrainStages
        /\ InitLocals(c)
        /\ rank = NoRanks

\* args.actual_seq_length = args.seq_length ... the random-LTD blend.
BlendStep ==
    /\ pc = "blend"
    /\ \E reserved \in 0..(cfg.seq_length + 1) :
          /\ random_ltd_reserved_length' = Some(reserved)
          /\ unblended_seq_length' = Some(UnblendedSeqLength(cfg, 0))
          /\ actual_seq_length' = Some(ActualSeqLength(cfg, 0, reserved))
    /\ pc' = "blended"
    /\ UNCHANGED <<cfg, iteration, args_iteration, consumed_train_samples,
                   consumed_train_tokens, consumed_valid_samples, curriculum_seqlen,
                   total_loss_dict, lr_num_steps, num_microbatches, losses_reduced,
                   update_successful, step_result, log_string, total_iterations,
                   saved_checkpoint, events, retval, window_calls, steps_executed,
                   reported, all_ok, rank, phases, schedule, model_mode,
                   eval_schedule, eval_passes, window_totals, stages, grad_ops,
                   teacher_forward, schedule_teacher_forward, curriculum_query,
                   eval_entry_seqlen, eval_result, tb_scalars, step_entry_tokens>>

NextBlend == BlendStep

SpecBlend == InitBlend /\ [][NextBlend]_vars

\* ------------------------------------------------------- claims of SpecRanks
RankTerminated(r) == rank[r].pc \in {"returned", "exited"}
HasFlag(q, i) == \E j \in 1..Len(rank[q].flags) : rank[q].flags[j][1] = i
\* The flag rank q computed in iteration i.
FlagAt(q, i) ==
    LET j == CHOOSE x \in 1..Len(rank[q].flags) : rank[q].flags[x][1] = i
    IN  rank[q].flags[j][2]

\* C5: with the duration check configured, after the all-reduce of an
\* iteration every rank holds done = true iff some rank's own flag of that
\* iteration was true; a rank holding done = true is on the exit path of that
\* iteration and nowhere else, and a rank leaves by the duration path only
\* with done = true.
C5_DurationConsensus ==
    \A r \in Ranks :
        LET s == rank[r] IN
        /\ s.done_iteration > 0 =>
              /\ \A q \in Ranks : HasFlag(q, s.done_iteration)
              /\ s.done = (IF \E q \in Ranks : FlagAt(q, s.done_iteration) = 1
                           THEN 1 ELSE 0)
        /\ s.done = 1 =>
              /\ s.iteration = s.done_iteration
              /\ \/ s.pc = "duration_done"
                 \/ s.pc \in {"save", "wait", "save_write", "save_done"}
                       /\ s.after_save = "duration"
                 \/ s.pc = "exited" /\ s.exit_path = "duration"
        /\ s.exit_path = "duration" => s.done = 1 /\ s.pc = "exited"

\* C5 witness: one rank's flag was true, the other's false, and both left by
\* the duration path in that iteration.
C5_Witness ==
    /\ \A r \in Ranks : rank[r].pc = "exited" /\ rank[r].exit_path = "duration"
    /\ \A r, q \in Ranks : rank[r].iteration = rank[q].iteration
    /\ rank[1].local = 1
    /\ \A r \in Ranks \ {1} : rank[r].local = 0

IsPrefix(a, b) == Len(a) <= Len(b) /\ SubSeq(b, 1, Len(a)) = a

\* C6: the ranks issue the same sequence of collective calls: any two ranks'
\* sequences so far agree (one is a prefix of the other), two waiting ranks
\* wait at the same call site of the same iteration, no rank waits while
\* another has left train(), and as long as some rank has not left train()
\* some step is possible.
C6_SameCollectives ==
    /\ \A r, q \in Ranks :
          /\ IsPrefix(rank[r].calls, rank[q].calls) \/ IsPrefix(rank[q].calls, rank[r].calls)
          /\ (rank[r].pc = "wait" /\ rank[q].pc = "wait") =>
                /\ rank[r].waiting = rank[q].waiting
                /\ rank[r].iteration = rank[q].iteration
          /\ rank[r].pc = "wait" => ~RankTerminated(q)
    /\ (\A r \in Ranks : RankTerminated(r)) \/ ENABLED NextRanks

\* C6 witness: every rank went through the periodic checkpoint's barriers, the
\* duration all-reduce and the exit barrier, and left.
C6_Witness ==
    /\ \A r \in Ranks : rank[r].pc = "exited" /\ rank[r].exit_path = "interval"
    /\ \A r \in Ranks :
          \E i, j, k \in 1..Len(rank[r].calls) :
              /\ rank[r].calls[i] = "save_barrier_2"
              /\ rank[r].calls[j] = "all_reduce"
              /\ rank[r].calls[k] = "exit_barrier"

\* ------------------------------------------------ claims of Spec, continued
Called(name) == \E i \in 1..Len(events) : events[i] = name

\* C11: in every iteration the un-blended length is seq_length, or
\* curriculum_seqlen when a curriculum is active; when random-LTD is active
\* and the reserved length is smaller than it, args.actual_seq_length is
\* (length * (num_layers - random_ltd_layer_num) + reserved *
\* random_ltd_layer_num) // num_layers, floored; otherwise it is the
\* un-blended length.
C11_RandomLtdBlend ==
    [][Stepped =>
          LET len      == unblended_seq_length'[1]
              reserved == random_ltd_reserved_length'[1]
              active   == cfg.curriculum_learning_legacy
                             \/ cfg.data_efficiency_curriculum_learning
              evaluated == \E i \in 1..Len(events') : events'[i] = "evaluate"
          IN  /\ ~active => len = cfg.seq_length
              /\ (active /\ ~evaluated) => len = curriculum_seqlen'[1]
              /\ cfg.random_ltd => random_ltd_reserved_length' # <<>>
              /\ IF cfg.random_ltd /\ reserved < len
                 THEN /\ actual_seq_length'[1] * cfg.num_layers
                            <= len * (cfg.num_layers - cfg.random_ltd_layer_num)
                                  + reserved * cfg.random_ltd_layer_num
                      /\ (actual_seq_length'[1] + 1) * cfg.num_layers
                            > len * (cfg.num_layers - cfg.random_ltd_layer_num)
                                  + reserved * cfg.random_ltd_layer_num
                 ELSE actual_seq_length' = <<len>>]_vars

\* C11 witness: 24 layers, 6 of them with random-LTD, length 2048 and
\* reserved length 512 gave 1664.
C11_Witness ==
    /\ cfg.random_ltd /\ cfg.num_layers = 24 /\ cfg.random_ltd_layer_num = 6
    /\ unblended_seq_length = <<2048>>
    /\ random_ltd_reserved_length = <<512>>
    /\ actual_seq_length = <<1664>>

\* The six phases of a train_step call, in the claimed order.
PhaseOrder ==
    <<"zero_grad", "schedule", "allreduce_gradients", "allreduce_embedding",
      "update", "result">>
IsPhase(name) == \E i \in 1..Len(PhaseOrder) : PhaseOrder[i] = name
PhaseIndex(name) == CHOOSE i \in 1..Len(PhaseOrder) : PhaseOrder[i] = name
HasPhase(name) == \E i \in 1..Len(phases) : phases[i] = name

\* C13: in every train_step call the phases that run, run in the order
\* gradient zeroing, schedule call, data-parallel gradient all-reduce,
\* embedding-gradient all-reduce, optimizer update, result computation, each
\* at most once; the update is preceded by the schedule call of the step and
\* followed by no gradient reduction; a call that gets to its result has
\* called the schedule and updated, and zeroed the gradients on the local path
\* (the pipeline engine's train_batch does the whole step in one call).
C13_PhaseOrder ==
    steps_executed > 0 =>
        /\ \A i \in 1..Len(phases) : IsPhase(phases[i]) \/ phases[i] = "train_batch"
        /\ \A i, j \in 1..Len(phases) :
              (i < j /\ IsPhase(phases[i]) /\ IsPhase(phases[j]))
                 => PhaseIndex(phases[i]) < PhaseIndex(phases[j])
        /\ \A i \in 1..Len(phases) :
              phases[i] = "update" =>
                 /\ \E j \in 1..(i - 1) : phases[j] = "schedule"
                 /\ \A j \in (i + 1)..Len(phases) :
                       phases[j] \notin {"schedule", "allreduce_gradients",
                                         "allreduce_embedding"}
        /\ (HasPhase("result") /\ ~HasPhase("train_batch")) =>
              /\ HasPhase("schedule") /\ HasPhase("update")
              /\ ~cfg.deepspeed => HasPhase("zero_grad")
        /\ HasPhase("train_batch") => (cfg.deepspeed /\ cfg.ds_pipeline_enabled)

\* C13 witness: a step of the first pipeline stage on the local path went
\* through all six phases.
C13_Witness ==
    /\ steps_executed = 1
    /\ phases = PhaseOrder
    /\ update_successful

\* The schedule the selection rule gives for the configuration.
Pipelined == cfg.pipeline_model_parallel_size > 1
VirtualSet == cfg.virtual_pipeline_model_parallel_size # <<>>
FollowsRule(chosen) ==
    /\ chosen = "forward_backward_pipelining_with_interleaving"
          <=> (Pipelined /\ VirtualSet)
    /\ chosen = "forward_backward_pipelining_without_interleaving"
          <=> (Pipelined /\ ~VirtualSet)
    /\ chosen = "forward_backward_no_pipelining" <=> ~Pipelined

\* C14: the schedule a train_step call selects and the schedule an evaluate
\* call selects are the one the rule gives for the pipeline-parallel world
\* size and the virtual pipeline size: interleaved iff the world size is
\* above 1 and the virtual size is set, non-interleaved iff it is above 1 and
\* the virtual size is not set, no pipelining otherwise; so the two select
\* the same schedule. Every train_step call off the pipeline-engine path and
\* every evaluate call with a forward pass selects one.
C14_ScheduleSelection ==
    /\ schedule # <<>> => FollowsRule(schedule[1])
    /\ eval_schedule # <<>> => FollowsRule(eval_schedule[1])
    /\ (schedule # <<>> /\ eval_schedule # <<>>) => schedule = eval_schedule
    /\ (steps_executed > 0 /\ ~(cfg.deepspeed /\ cfg.ds_pipeline_enabled))
          => schedule # <<>>
    /\ eval_passes # <<>> => eval_schedule # <<>>

\* C14 witness: a training step and the evaluation after it both selected
\* the interleaved schedule.
C14_Witness ==
    /\ steps_executed = 1
    /\ schedule = <<"forward_backward_pipelining_with_interleaving">>
    /\ eval_schedule = schedule
    /\ eval_passes # <<>>
    /\ pc = "done"

\* The interleaved schedule with a number of microbatches the
\* pipeline-parallel size does not divide.
NotDivisible(nm) == nm % cfg.pipeline_model_parallel_size # 0

\* The part of C15 about training steps: a train_step call that selected the
\* interleaved schedule with such a number of microbatches raised, and did
\* not call the schedule.
TrainStepChecksDivisible ==
    (schedule = <<"forward_backward_pipelining_with_interleaving">>
        /\ NotDivisible(num_microbatches))
    => (pc = "error" /\ ~HasPhase("schedule"))

\* C15 (as claimed): whenever the interleaved schedule is selected, in a
\* training step or in a pass of evaluate, with a number of microbatches the
\* pipeline-parallel size does not divide, an error is raised and the
\* schedule is not called.
C15_InterleavedNeedsDivisible ==
    /\ TrainStepChecksDivisible
    /\ \A j \in 1..Len(eval_passes) :
          ~(/\ eval_passes[j].call = "forward_backward_pipelining_with_interleaving"
            /\ NotDivisible(eval_passes[j].nm))

\* The part of C16 the code keeps: every forward pass of evaluate runs in
\* evaluation mode, and an evaluate call that returns leaves the partitions
\* in training mode.
EvalModeOnReturn ==
    /\ \A j \in 1..Len(eval_passes) : eval_passes[j].mode = "eval"
    /\ pc # "error" => model_mode = "train"

\* C16 (as claimed): every forward pass of evaluate runs with the partitions
\* in evaluation mode, and whenever control is outside evaluate, whether the
\* call returned or an error raised by a forward pass left it, the
\* partitions are in training mode.
C16_EvalModeRestored ==
    /\ \A j \in 1..Len(eval_passes) : eval_passes[j].mode = "eval"
    /\ model_mode = "train"

\* The keys of a total_loss_dict that hold running sums.
SumKeys(tld) ==
    DOMAIN tld \ {"advanced iterations", "skipped iterations", "nan iterations"}

\* C19: a training_log call for a skipped step leaves every running sum and
\* the advanced counter as they were and adds one to the skipped counter; a
\* call for an advanced step adds the step's value of each key to the key's
\* running sum, once (a key without a sum starts from 0.0), leaves the other
\* sums and the skipped counter as they were and adds one to the advanced
\* counter. (The sums and counters are compared before the reset of an
\* interval boundary.)
C19_SkippedStepFrame ==
    [][Stepped =>
          LET before == total_loss_dict
              after  == window_totals'
              ld     == step_result'.loss_dict
          IN  /\ iteration' % cfg.log_interval # 0 => total_loss_dict' = after
              /\ IF step_result'.skipped_iter = 1
                 THEN /\ SumKeys(after) = SumKeys(before)
                      /\ \A key \in SumKeys(before) : after[key] = before[key]
                      /\ after["advanced iterations"]
                            = Counter(before, "advanced iterations")
                      /\ after["skipped iterations"]
                            = Counter(before, "skipped iterations") + 1
                 ELSE /\ step_result'.skipped_iter = 0
                      /\ SumKeys(after) = SumKeys(before) \cup DOMAIN ld
                      /\ \A key \in DOMAIN ld :
                            after[key] = FAdd(IF key \in DOMAIN before
                                              THEN before[key] ELSE FZero, ld[key])
                      /\ \A key \in SumKeys(before) \ DOMAIN ld :
                            after[key] = before[key]
                      /\ after["advanced iterations"]
                            = Counter(before, "advanced iterations") + 1
                      /\ after["skipped iterations"]
                            = Counter(before, "skipped iterations")]_vars

\* C19 witness: a skipped step with a finite loss after an advanced step of
\* the same window: the sum holds the advanced step's loss only.
C19_Witness ==
    /\ step_result.skipped_iter = 1
    /\ step_result.loss_dict = [key \in {"lm loss"} |-> [k |-> "fin", n |-> 3, d |-> 2]]
    /\ window_totals = total_loss_dict
    /\ total_loss_dict["advanced iterations"] = 1
    /\ total_loss_dict["skipped iterations"] = 1
    /\ total_loss_dict["lm loss"] = [k |-> "fin", n |-> 3, d |-> 2]

\* avg is sum / m.
IsQuotient(avg, sum, m) ==
    IF sum.k = "fin" THEN avg.k = "fin" /\ avg.n * sum.d * m = sum.n * avg.d
    ELSE avg = sum

\* C20: at a training_log call with iteration % log_interval = 0 each
\* reported average is the key's running sum / max(1, advanced count) of the
\* window (the averages above 0.0 are the reported ones), and after the call
\* every running sum is 0.0 and the three counters are 0; at a call with
\* iteration % log_interval # 0 nothing is reported and no sum and no counter
\* is reset.
C20_IntervalReport ==
    [][Stepped =>
          LET upd == window_totals'
              adv == upd["advanced iterations"]
              m   == IF adv > 1 THEN adv ELSE 1
          IN  IF iteration' % cfg.log_interval = 0
              THEN /\ log_string' # <<>>
                   /\ \A key \in DOMAIN log_string'[1].losses :
                         /\ key \in SumKeys(upd)
                         /\ IsQuotient(log_string'[1].losses[key], upd[key], m)
                   /\ \A key \in SumKeys(upd) :
                         (upd[key].k = "inf" \/ (upd[key].k = "fin" /\ upd[key].n > 0))
                            => key \in DOMAIN log_string'[1].losses
                   /\ log_string'[1].skipped = upd["skipped iterations"]
                   /\ log_string'[1].nan = upd["nan iterations"]
                   /\ DOMAIN total_loss_dict' = DOMAIN upd
                   /\ \A key \in SumKeys(upd) : total_loss_dict'[key] = FZero
                   /\ total_loss_dict'["advanced iterations"] = 0
                   /\ total_loss_dict'["skipped iterations"] = 0
                   /\ total_loss_dict'["nan iterations"] = 0
              ELSE /\ log_string' = <<>>
                   /\ total_loss_dict' = upd]_vars

\* C20 witness: a window of two advanced steps with a sum of 3 reported the
\* average 3/2 and was reset.
C20_Witness ==
    /\ log_string # <<>>
    /\ window_totals["advanced iterations"] = 2
    /\ window_totals["lm loss"] = [k |-> "fin", n |-> 3, d |-> 1]
    /\ log_string[1].losses = [key \in {"lm loss"} |-> [k |-> "fin", n |-> 3, d |-> 2]]
    /\ total_loss_dict["lm loss"] = [k |-> "fin", n |-> 0, d |-> 1]
    /\ total_loss_dict["advanced iterations"] = 0

\* C23: every iteration of train()'s loop that gets past train_step adds
\* exactly 1 to iteration and to args.iteration and exactly
\* data_parallel_world_size * micro_batch_size * num_microbatches of the step
\* to consumed_train_samples, skipped step or not (an exception raised by
\* train_step leaves the three as they were); no step of train() decreases
\* any of them.
C23_CountersAdvance ==
    [][/\ iteration' >= iteration
       /\ args_iteration' >= args_iteration
       /\ consumed_train_samples' >= consumed_train_samples
       /\ steps_executed' = steps_executed + 1 =>
             \/ /\ pc' = "error"
                /\ UNCHANGED <<iteration, args_iteration, consumed_train_samples,
                               step_result, events>>
             \/ /\ iteration' = iteration + 1
                /\ args_iteration' = iteration + 1
                /\ consumed_train_samples' =
                      consumed_train_samples
                      + cfg.data_parallel_size * cfg.micro_batch_size
                        * num_microbatches']_vars

\* Two iterations under batch-size ramp-up (1 microbatch, then 3), the second
\* one skipped: 8 + 24 samples.
C23_Witness ==
    /\ cfg.rampup_samples = 8 /\ cfg.start_iteration = 0
    /\ steps_executed = 2 /\ iteration = 2 /\ args_iteration = 2
    /\ step_result.skipped_iter = 1
    /\ num_microbatches = 3
    /\ consumed_train_samples = 32

\* The positions of a call in grad_ops, of any partition and of one.
OpsOf(call) == {i \in 1..Len(grad_ops) : grad_ops[i].call = call}
OpsOn(call, part) ==
    {i \in OpsOf(call) : grad_ops[i].partition = part}
\* The model partitions of a rank without the external engine.
Partitions ==
    IF Pipelined /\ VirtualSet
    THEN 1..cfg.virtual_pipeline_model_parallel_size[1] ELSE {1}
ZeroOps == OpsOf("zero_grad_buffer") \cup OpsOf("optimizer.zero_grad")

\* C24: a train_step call on the external-engine path makes no call that
\* zeroes gradients, none that all-reduces them over the data-parallel group
\* and none that all-reduces the embedding gradient; on the local path it
\* zeroes the gradients once, before the schedule call (zero_grad_buffer once
\* on every partition with local DDP and contiguous buffers, one
\* optimizer.zero_grad otherwise), and a step that runs its schedule calls
\* allreduce_gradients once on every partition with local DDP and never
\* otherwise.
C24_GradientCalls ==
    /\ cfg.deepspeed =>
          /\ ZeroOps = {}
          /\ OpsOf("allreduce_gradients") = {}
          /\ OpsOf("allreduce_embedding") = {}
          /\ ~HasPhase("zero_grad") /\ ~HasPhase("allreduce_gradients")
          /\ ~HasPhase("allreduce_embedding")
    /\ (~cfg.deepspeed /\ steps_executed > 0) =>
          /\ \A i \in ZeroOps : \A j \in OpsOf("schedule") : i < j
          /\ IF cfg.DDP_impl = "local" /\ cfg.use_contiguous_buffers_in_ddp
             THEN /\ OpsOf("optimizer.zero_grad") = {}
                  /\ \A part \in Partitions :
                        Cardinality(OpsOn("zero_grad_buffer", part)) = 1
                  /\ Cardinality(OpsOf("zero_grad_buffer")) = Cardinality(Partitions)
             ELSE /\ OpsOf("zero_grad_buffer") = {}
                  /\ Cardinality(OpsOf("optimizer.zero_grad")) = 1
          /\ OpsOf("schedule") # {} =>
                IF cfg.DDP_impl = "local"
                THEN /\ \A part \in Partitions :
                           Cardinality(OpsOn("allreduce_gradients", part)) = 1
                     /\ Cardinality(OpsOf("allreduce_gradients")) =
                           Cardinality(Partitions)
                     /\ \A i \in OpsOf("allreduce_gradients") :
                           \A j \in OpsOf("schedule") : j < i
                ELSE OpsOf("allreduce_gradients") = {}

\* A step with two partitions (interleaved schedule), local DDP and
\* contiguous buffers: two zero_grad_buffer calls, the schedule, two
\* allreduce_gradients calls.
C24_Witness ==
    /\ ~cfg.deepspeed /\ steps_executed = 1
    /\ Cardinality(Partitions) = 2
    /\ Cardinality(OpsOf("zero_grad_buffer")) = 2
    /\ Cardinality(OpsOf("schedule")) = 1
    /\ Cardinality(OpsOf("allreduce_gradients")) = 2

\* The same rank's configuration on the first and on the last stage.
AsFirstStage == [cfg EXCEPT !.is_first_stage = TRUE, !.is_last_stage = FALSE]
AsLastStage == [cfg EXCEPT !.is_first_stage = FALSE, !.is_last_stage = TRUE]

\* C25: a train_step call on the local path that gets past its schedule
\* enters the embedding-gradient all-reduce iff the pipeline-parallel world
\* size is above 1, the rank is the first or the last stage and the model
\* shares its word embeddings; a rank that is neither never enters it, and
\* under one configuration the first and the last stage take the same
\* decision.
C25_EmbeddingAllReduce ==
    /\ (~cfg.deepspeed /\ HasPhase("schedule")) =>
          (HasPhase("allreduce_embedding") <=>
              /\ cfg.pipeline_model_parallel_size > 1
              /\ cfg.is_first_stage \/ cfg.is_last_stage
              /\ cfg.share_word_embeddings)
    /\ (~cfg.is_first_stage /\ ~cfg.is_last_stage) =>
          ~HasPhase("allreduce_embedding")
    /\ (~cfg.deepspeed /\ cfg.pipeline_model_parallel_size > 1) =>
          ReduceEmbeddingPhase(AsFirstStage) = ReduceEmbeddingPhase(AsLastStage)
    /\ Cardinality(OpsOf("allreduce_embedding")) =
          (IF HasPhase("allreduce_embedding") THEN 1 ELSE 0)

\* The last of two stages has entered the embedding all-reduce.
C25_Witness ==
    /\ cfg.pipeline_model_parallel_size = 2
    /\ cfg.is_last_stage /\ ~cfg.is_first_stage
    /\ HasPhase("allreduce_embedding")

C27_QueryWithoutPipeline ==
    [][steps_executed' = steps_executed + 1 =>
          /\ curriculum_query' # None <=>
                (cfg.curriculum_learning_legacy /\ cfg.no_pipeline_parallel)
          /\ curriculum_query' # None =>
                curriculum_query' = Some(args_iteration + 1)]_vars

\* C27, amended: before a step, train() asks the curriculum scheduler iff
\* the legacy curriculum is active and no_pipeline_parallel is not set; it
\* asks about the number of completed iterations + 1 and the step runs with
\* the length it is given. Without any curriculum the iteration leaves
\* curriculum_seqlen as it was.
C27_QueryWithPipeline ==
    [][steps_executed' = steps_executed + 1 =>
          /\ curriculum_query' # None <=>
                (cfg.curriculum_learning_legacy /\ ~cfg.no_pipeline_parallel)
          /\ curriculum_query' # None =>
                /\ curriculum_query' = Some(args_iteration + 1)
                /\ iteration' = iteration + 1 =>
                      unblended_seq_length' =
                          Some(UpdateDifficulty(cfg, args_iteration + 1))
          /\ ~(cfg.curriculum_learning_legacy
                  \/ cfg.data_efficiency_curriculum_learning) =>
                curriculum_seqlen' = curriculum_seqlen]_vars

\* The second step of a legacy curriculum under the pipeline engine: the
\* scheduler was asked about step 2 and the step ran with its length.
C27_Witness ==
    /\ cfg.curriculum_learning_legacy /\ ~cfg.no_pipeline_parallel
    /\ steps_executed = 2 /\ iteration = 2
    /\ curriculum_query = Some(2)
    /\ unblended_seq_length = Some(1024)

\* The latest call of evaluate has returned, and nothing ran after it.
JustEvaluated == Called("evaluate") /\ pc # "error" /\ eval_result # None

\* The keys the passes of the latest evaluation reported.
ReportedKeys ==
    UNION {UNION {DOMAIN eval_passes[j].loss_dicts[i] :
                    i \in 1..Len(eval_passes[j].loss_dicts)} :
             j \in 1..Len(eval_passes)}

\* The sum of a key over every loss dict of every pass.
ReportedSum(key) ==
    PySum([j \in 1..Len(eval_passes) |->
             PySum([i \in 1..Len(eval_passes[j].loss_dicts) |->
                      Get(eval_passes[j].loss_dicts[i], key, FZero)])])

\* What evaluate returns for the keys in keys: eval_iters passes were run, the
\* last stage returns for each of these keys its sum divided by
\* eval_iters * num_microbatches, every other stage an empty mapping.
EvalReturns(keys) ==
    /\ Len(eval_passes) = cfg.eval_iters
    /\ \A j \in 1..Len(eval_passes) : ~eval_passes[j].raised
    /\ IF cfg.is_last_stage
       THEN /\ DOMAIN eval_result[1] = keys
            /\ \A key \in keys :
                  eval_result[1][key] =
                      FDivInt(ReportedSum(key), cfg.eval_iters * num_microbatches)
       ELSE eval_result[1] = EmptyDict

\* C28 as stated: evaluate runs exactly eval_iters passes and returns, for
\* every loss key the passes reported, the sum of the per-microbatch losses
\* divided by eval_iters * num_microbatches; a rank that is not the last
\* pipeline stage returns an empty mapping.
C28_EvalAveragesEveryKey == JustEvaluated => EvalReturns(ReportedKeys)

\* C28, amended: evaluate runs exactly eval_iters passes and returns, for
\* every reported loss key that does not contain 'moe', the sum of the
\* per-microbatch losses divided by eval_iters * num_microbatches; keys that
\* contain 'moe' are left out; a rank that is not the last pipeline stage
\* returns an empty mapping.
C28_EvalAverages ==
    JustEvaluated => EvalReturns({key \in ReportedKeys : key # "moe loss"})

\* An evaluation of two passes of two microbatches on the last stage that
\* reported a mixture-of-experts loss next to the language-model loss.
C28_Witness ==
    /\ JustEvaluated
    /\ cfg.is_last_stage
    /\ cfg.eval_iters = 2
    /\ num_microbatches = 2
    /\ ReportedKeys = {"lm loss", "moe loss"}
    /\ eval_result[1] = LmLoss(Fin(3, 1))

\* C29 as stated: with a curriculum active evaluate runs its passes with
\* curriculum_seqlen = seq_length, and when it returns curriculum_seqlen is
\* the value it had on entry.
C29_EvalRoundTrip ==
    (JustEvaluated /\ AnyCurriculum(cfg)) =>
        /\ \A j \in 1..Len(eval_passes) :
              eval_passes[j].seqlen = Some(cfg.seq_length)
        /\ curriculum_seqlen = eval_entry_seqlen

\* C29, amended: with the legacy curriculum and no_pipeline_parallel not set,
\* evaluate runs its passes with curriculum_seqlen = seq_length, and when it
\* returns curriculum_seqlen is the scheduler's difficulty for
\* args.iteration + 1; in every other configuration the passes run with the
\* curriculum_seqlen of the entry, which evaluate leaves as it is.
C29_EvalSeqlen ==
    JustEvaluated =>
        IF cfg.curriculum_learning_legacy /\ ~cfg.no_pipeline_parallel
        THEN /\ \A j \in 1..Len(eval_passes) :
                   eval_passes[j].seqlen = Some(cfg.seq_length)
             /\ curriculum_seqlen = Some(UpdateDifficulty(cfg, args_iteration + 1))
        ELSE /\ \A j \in 1..Len(eval_passes) :
                   eval_passes[j].seqlen = eval_entry_seqlen
             /\ curriculum_seqlen = eval_entry_seqlen

\* An evaluation entered with a legacy curriculum length below seq_length,
\* run at seq_length, that returned with the difficulty of the next step.
C29_Witness ==
    /\ JustEvaluated
    /\ cfg.curriculum_learning_legacy /\ ~cfg.no_pipeline_parallel
    /\ Len(eval_passes) > 0
    /\ eval_entry_seqlen = Some(1024)
    /\ eval_passes[1].seqlen = Some(2048)
    /\ curriculum_seqlen = Some(1536)

\* The number of calls the latest iteration made for a side effect whose
\* gate is g.
CallsFor(g) == IF g THEN 1 ELSE 0

\* C30: after the step and the logging of an iteration the side effects run
\* in the order auto-resume check, evaluation, checkpoint save; the
\* auto-resume check runs iff adlr_autoresume is set and the iteration is a
\* multiple of adlr_autoresume_interval, the evaluation iff eval_interval is
\* nonzero, divides the iteration and do_valid is set, the save iff save is
\* set and save_interval is nonzero and divides the iteration.
C30_SideEffects ==
    (Len(events) >= 2 /\ events[1] = "train_step") =>
        LET auto == cfg.adlr_autoresume
                        /\ iteration % cfg.adlr_autoresume_interval = 0
            eval == cfg.eval_interval # 0 /\ iteration % cfg.eval_interval = 0
                        /\ cfg.do_valid
            save == cfg.save /\ cfg.save_interval # 0
                        /\ iteration % cfg.save_interval = 0
            n    == 2 + CallsFor(auto) + CallsFor(eval)
        IN  /\ events[2] = "training_log"
            /\ Called("autoresume") <=> auto
            /\ auto => events[3] = "autoresume"
            /\ Called("evaluate") <=> eval
            /\ eval => events[n] = "evaluate"
            /\ pc # "error" =>
                  /\ saved_checkpoint <=> save
                  /\ save => Len(events) > n /\ events[n + 1] = "save"
                  /\ ~save => \A i \in 3..Len(events) :
                                 events[i] = "save" =>
                                     pc \in {"exit_duration", "exit_interval"}

\* An iteration that made the auto-resume check and saved a checkpoint
\* without an evaluation in between, whose interval does not divide it.
C30_Witness ==
    /\ events = <<"train_step", "training_log", "autoresume", "save">>
    /\ iteration = 2
    /\ cfg.eval_interval = 3 /\ cfg.do_valid
    /\ cfg.adlr_autoresume_interval = 2
    /\ saved_checkpoint

\* C31 as stated: on the local path train_step returns a non-empty averaged
\* loss mapping only on the last pipeline stage, and on every other stage an
\* empty mapping with skipped_iter = 0 and grad_norm = num_zeros_in_grad =
\* None; on the external-engine path every rank returns a non-empty mapping.
C31_StepResultZeroNone ==
    [][Stepped =>
         IF cfg.deepspeed THEN step_result'.loss_dict # EmptyDict
         ELSE IF cfg.is_last_stage
              THEN /\ step_result'.loss_dict # EmptyDict
                   /\ DOMAIN step_result'.loss_dict = DOMAIN losses_reduced'[1]
              ELSE /\ step_result'.loss_dict = EmptyDict
                   /\ step_result'.skipped_iter = 0
                   /\ step_result'.grad_norm = None
                   /\ step_result'.num_zeros_in_grad = None]_vars

\* C31, amended: on the local path train_step returns a non-empty averaged
\* loss mapping only on the last pipeline stage, and on every other stage an
\* empty mapping; on every stage of the local path skipped_iter is 0 when the
\* update was applied and 1 when it was not, and grad_norm and
\* num_zeros_in_grad are what optimizer.step() returned; on the
\* external-engine path every rank returns a non-empty mapping.
C31_StepResult ==
    [][Stepped =>
         IF cfg.deepspeed THEN step_result'.loss_dict # EmptyDict
         ELSE /\ IF cfg.is_last_stage
                 THEN /\ step_result'.loss_dict # EmptyDict
                      /\ DOMAIN step_result'.loss_dict = DOMAIN losses_reduced'[1]
                 ELSE step_result'.loss_dict = EmptyDict
              /\ step_result'.skipped_iter = (IF update_successful' THEN 0 ELSE 1)
              /\ \E opt \in UpdateOutcomes :
                    /\ opt.success = update_successful'
                    /\ step_result'.grad_norm = opt.grad_norm
                    /\ step_result'.num_zeros_in_grad = opt.num_zeros]_vars

\* A step of the local path on a stage that is not the last, whose update
\* was not applied: an empty mapping and skipped_iter = 1.
C31_Witness ==
    /\ steps_executed > 0 /\ pc # "error"
    /\ ~cfg.deepspeed /\ ~cfg.is_last_stage
    /\ ~update_successful
    /\ step_result.loss_dict = EmptyDict
    /\ step_result.skipped_iter = 1

\* The metrics of C32's list that the latest training_log call wrote.
ListedMetrics ==
    {"learning-rate", "batch-size", "loss-scale", "grad-norm", "num-zeros",
     "params-norm", "actual_seq_length", "curriculum_seqlen",
     "random_ltd_reserved_length"} \cup DOMAIN step_result.loss_dict
Emitted == {m \in ListedMetrics : \E sc \in tb_scalars : sc.metric = m}

\* The latest call wrote metric m against axis a, at the value at.
WrittenAgainst(m, a, at) == [metric |-> m, x |-> a, at |-> at] \in tb_scalars

\* C32: at a tensorboard-interval boundary on the writing rank, every metric
\* training_log emits for the step (learning rate, batch size, each loss
\* key, loss scale, grad norm, num zeros, params norm, sequence lengths) is
\* emitted three times: against the iteration count, against
\* consumed_train_samples and against consumed_train_tokens.
C32_ThreeAxes ==
    \A m \in Emitted :
        /\ WrittenAgainst(m, "iteration", iteration)
        /\ WrittenAgainst(m, "samples", consumed_train_samples)
        /\ WrittenAgainst(m, "tokens", consumed_train_tokens)

\* What does hold: every listed metric but the batch size is written against
\* the three axes, the batch size against the iteration and the samples.
ThreeAxesButBatchSize ==
    \A m \in Emitted :
        /\ WrittenAgainst(m, "iteration", iteration)
        /\ WrittenAgainst(m, "samples", consumed_train_samples)
        /\ WrittenAgainst(m, "tokens", consumed_train_tokens) <=> m # "batch-size"

\* The latest train_step call raised: it was counted as called and the
\* iteration it belongs to was not completed.
StepRaised == steps_executed # iteration - cfg.start_iteration

\* The microbatches of the latest step reported different key sets on a rank
\* that averages them, in a step that got as far as the averaging.
MixedKeys ==
    /\ steps_executed > 0
    /\ Len(losses_reduced) > 1
    /\ ~TrainAssertFails(cfg, num_microbatches)
    /\ \E i \in 2..Len(losses_reduced) : DOMAIN losses_reduced[i] # DOMAIN losses_reduced[1]

\* A key of the first microbatch is missing from a later one.
FirstKeyMissingLater ==
    \E i \in 2..Len(losses_reduced) :
        \E key \in DOMAIN losses_reduced[1] : key \notin DOMAIN losses_reduced[i]

\* C33: when the microbatches of one step report different key sets on the
\* loss-producing stage, train_step's averaging does not fail: the step
\* returns an averaged loss mapping.
C33_MixedKeysIgnored == MixedKeys => ~StepRaised

\* What does hold: with different key sets the step fails exactly when a key
\* of the first microbatch is missing from a later one; keys the first
\* microbatch does not have are left out of the mapping it returns.
MixedKeysOutcome ==
    MixedKeys =>
        /\ StepRaised <=> FirstKeyMissingLater
        /\ ~StepRaised => DOMAIN step_result.loss_dict = DOMAIN losses_reduced[1]

\* C35: 'nan iterations' <= 'skipped iterations' in total_loss_dict, before
\* and after the reset of a logging boundary; the nan counter grows only in a
\* training_log call whose step was skipped, and by at most one per call.
C35_NanAtMostSkipped ==
    [][/\ Counter(total_loss_dict', nan_iters_key)
              <= Counter(total_loss_dict', skipped_iters_key)
       /\ Counter(window_totals', nan_iters_key)
              <= Counter(window_totals', skipped_iters_key)
       /\ Stepped =>
             LET grown == Counter(window_totals', nan_iters_key)
                              - Counter(total_loss_dict, nan_iters_key)
             IN  /\ grown \in {0, 1}
                 /\ grown = 1 => step_result'.skipped_iter # 0]_vars

\* A logging window with two skipped steps, one of which reported a loss
\* that is not finite.
C35_Witness ==
    /\ Counter(total_loss_dict, nan_iters_key) = 1
    /\ Counter(total_loss_dict, skipped_iters_key) = 2

\* C36: in a training_log call that reaches a logging boundary the
\* normalizer total_iterations = advanced + skipped is at least 1 and at most
\* log_interval, whatever the iteration train() started at; in every call it
\* is at least 1.
C36_NormalizerInRange ==
    /\ iteration > cfg.start_iteration => total_iterations >= 1
    /\ log_string # None =>
          /\ total_iterations >= 1
          /\ total_iterations <= cfg.log_interval
          /\ total_iterations = window_totals[advanced_iters_key]
                                    + window_totals[skipped_iters_key]

\* A run resumed at iteration 1 with log_interval = 3 reached the boundary
\* of iteration 3 with two iterations in its window.
C36_Witness ==
    /\ cfg.start_iteration = 1 /\ cfg.log_interval = 3
    /\ iteration = 3
    /\ log_string # None
    /\ total_iterations = 2

\* The growth of consumed_train_samples since train() was entered.
SamplesGrown ==
    consumed_train_samples
        - cfg.start_iteration * cfg.data_parallel_size * cfg.micro_batch_size
              * cfg.max_microbatches

\* C37: on the local path, after any number of completed iterations the
\* total increment handed to lr_scheduler.step is at most the growth of
\* consumed_train_samples over them, and equal to it exactly when no step
\* was skipped.
C37_LrAtMostSamples ==
    (~cfg.deepspeed /\ ~StepRaised) =>
        /\ lr_num_steps <= SamplesGrown
        /\ lr_num_steps = SamplesGrown <=> TotalSkipped = 0

\* Two iterations of the local path, one of them skipped: the scheduler got
\* one increment, consumed_train_samples two.
C37_Witness ==
    /\ ~cfg.deepspeed /\ ~StepRaised
    /\ iteration = cfg.start_iteration + 2
    /\ TotalSkipped = 1
    /\ lr_num_steps = 16
    /\ SamplesGrown = 32

\* args.consumed_train_tokens when train() was entered.
TokensAtStart ==
    cfg.start_iteration * cfg.data_parallel_size * cfg.micro_batch_size
        * cfg.max_microbatches * cfg.seq_length

\* C38: when train() returns, having started at args.iteration <=
\* train_iters without a token limit, it returns train_iters after
\* train_iters - args.iteration steps; having started at args.iteration >=
\* train_iters it returns the iteration it started at, without a step and
\* with consumed_train_samples and consumed_train_tokens as they were.
C38_ReturnsTrainIters ==
    retval # None =>
        /\ (cfg.start_iteration <= cfg.train_iters /\ cfg.train_tokens = None) =>
              /\ retval = Some(cfg.train_iters)
              /\ steps_executed = cfg.train_iters - cfg.start_iteration
        /\ cfg.start_iteration >= cfg.train_iters =>
              /\ retval = Some(cfg.start_iteration)
              /\ steps_executed = 0
              /\ SamplesGrown = 0
              /\ consumed_train_tokens = TokensAtStart

\* A run resumed at iteration 1 returned 3 after two steps.
C38_Witness ==
    /\ retval = Some(3)
    /\ cfg.start_iteration = 1 /\ cfg.train_iters = 3
    /\ cfg.train_tokens = None
    /\ steps_executed = 2

\* A run resumed past train_iters returned at once.
ReturnedAtOnce ==
    /\ retval = Some(1)
    /\ cfg.start_iteration = 1 /\ cfg.train_iters = 0
    /\ steps_executed = 0

\* train() returned before train_iters: the token limit stopped it.
StoppedByTokens == retval # None /\ iteration < cfg.train_iters

\* C39: with train_tokens set, every executed step started with
\* consumed_train_tokens < train_tokens; when train() stops because of the
\* limit, consumed_train_tokens has reached it and overshoots it by less
\* than the tokens of the last executed step.
C39_TokenLimitAtLoopHead ==
    cfg.train_tokens # None =>
        /\ step_entry_tokens # None => step_entry_tokens[1] < cfg.train_tokens[1]
        /\ StoppedByTokens =>
              /\ consumed_train_tokens >= cfg.train_tokens[1]
              /\ step_entry_tokens # None =>
                    consumed_train_tokens - cfg.train_tokens[1]
                        < consumed_train_tokens - step_entry_tokens[1]

\* A run with a limit of 20000 tokens stopped after its second step, which
\* started at 16384 tokens and ended at 32768.
C39_Witness ==
    /\ StoppedByTokens
    /\ cfg.train_tokens = Some(20000)
    /\ step_entry_tokens = Some(16384)
    /\ consumed_train_tokens = 32768

\* ------------------------------------------------------ claims of SpecResume
\* C12: build_train_valid_test_data_iterators, iteration-based training
\* (train_samples is None): with a restored iteration > 0 and
\* consumed_train_samples = 0 it sets consumed_train_samples to iteration *
\* global_batch_size; with iteration = 0 or consumed_train_samples # 0 it
\* leaves the counter as it is.
C12_LegacyTrainSamples ==
    [][pc = "build" =>
          IF args_iteration > 0 /\ consumed_train_samples = 0
          THEN cfg.train_samples = <<>> =>
                  consumed_train_samples' = args_iteration * cfg.global_batch_size
          ELSE consumed_train_samples' = consumed_train_samples]_vars

\* C12 witness: iteration 100 and global batch size 32 gave 3200.
C12_Witness ==
    /\ pc = "built"
    /\ args_iteration = 100 /\ cfg.global_batch_size = 32
    /\ cfg.train_samples = <<>>
    /\ consumed_train_samples = 3200

\* A checkpoint of iteration-based training with iteration > 0 whose
\* consumed counters are zero.
LegacyCheckpoint ==
    /\ args_iteration > 0
    /\ consumed_train_samples = 0 /\ consumed_valid_samples = 0
    /\ cfg.train_samples = None

\* C34: on resume from a checkpoint with iteration > 0 whose consumed counters
\* are zero, build_train_valid_test_data_iterators completes without error,
\* for every eval_interval train() accepts (0 included, which switches the
\* periodic evaluation off), and sets consumed_valid_samples to
\* (iteration // eval_interval) * eval_iters * global_batch_size; with
\* iteration = 0 or consumed_valid_samples # 0 it leaves the counter as it is.
C34_ValidSamplesRebuilt ==
    [][pc = "build" =>
          IF LegacyCheckpoint
          THEN /\ pc' # "error"
               /\ consumed_valid_samples' =
                     (args_iteration \div cfg.eval_interval) * cfg.eval_iters
                         * cfg.global_batch_size
          ELSE (args_iteration = 0 \/ consumed_valid_samples # 0) =>
                  consumed_valid_samples' = consumed_valid_samples]_vars

\* What does hold: the same with a nonzero eval_interval.
ValidSamplesRebuiltNonzeroInterval ==
    [][(pc = "build" /\ cfg.eval_interval # 0) =>
          IF LegacyCheckpoint
          THEN /\ pc' # "error"
               /\ consumed_valid_samples' =
                     (args_iteration \div cfg.eval_interval) * cfg.eval_iters
                         * cfg.global_batch_size
          ELSE (args_iteration = 0 \/ consumed_valid_samples # 0) =>
                  consumed_valid_samples' = consumed_valid_samples]_vars

\* With eval_interval = 0 a legacy checkpoint always ends in an error.
ZeroIntervalRaises ==
    [][(pc = "build" /\ cfg.eval_interval = 0 /\ LegacyCheckpoint) =>
          pc' = "error"]_vars

\* ------------------------------------------- claims of SpecRanks, continued
\* The number of checkpoints rank r saved in iteration i.
SavesAt(r, i) ==
    Cardinality({j \in 1..Len(rank[r].saves) : rank[r].saves[j] = i})
LastCall(r, site) ==
    CHOOSE j \in 1..Len(rank[r].calls) :
        /\ rank[r].calls[j] = site
        /\ \A k \in (j + 1)..Len(rank[r].calls) : rank[r].calls[k] # site

\* C17: a rank that left train() by the duration path or by the
\* exit-interval path in iteration i saved the checkpoint of iteration i
\* exactly once in that iteration, before sys.exit(): the exit path saved
\* exactly when the periodic checkpoint had not; on the exit-interval path
\* the save came first, then the barrier, then the exit.
C17_ExitAfterOneSave ==
    \A r \in Ranks :
        LET s == rank[r] IN
        /\ s.pc \in {"exit_barrier", "exit_now", "exited"} =>
              /\ SavesAt(r, s.iteration) = 1
              /\ s.saves[Len(s.saves)] = s.iteration
              /\ \E j \in 1..Len(s.calls) : s.calls[j] = "save_barrier_2"
        /\ (s.pc = "exited" /\ s.exit_path = "duration") =>
              /\ (s.after_save = "duration") = ~s.saved_checkpoint
              /\ s.saved_checkpoint =>
                    LastCall(r, "save_barrier_2") < LastCall(r, "all_reduce")
              /\ ~s.saved_checkpoint =>
                    LastCall(r, "all_reduce") < LastCall(r, "save_barrier_2")
        /\ (s.pc \in {"exit_now", "exited"} /\ s.exit_path # "duration") =>
              /\ (s.after_save = "interval") = ~s.saved_checkpoint
              /\ s.calls[Len(s.calls)] = "exit_barrier"
              /\ LastCall(r, "save_barrier_2") < Len(s.calls)

\* C17 witness: every rank left by the exit-interval path in iteration 2,
\* where the periodic checkpoint had been saved, with one checkpoint of
\* iteration 1 and one of iteration 2.
C17_Witness ==
    \A r \in Ranks :
        /\ rank[r].pc = "exited" /\ rank[r].exit_path = "interval"
        /\ rank[r].saved_checkpoint
        /\ rank[r].saves = <<1, 2>>

\* C18 (as claimed): each of the two termination checks takes its exit
\* decision from a value all-reduced with MAX: a rank that called sys.exit()
\* in an iteration holds the flag of that iteration's all-reduce, set.
C18_ExitFromAllReduce ==
    \A r \in Ranks :
        rank[r].pc = "exited" =>
            /\ rank[r].done = 1
            /\ rank[r].done_iteration = rank[r].iteration

\* C18 (amended): the duration check takes its exit decision from the flag
\* all-reduced with MAX; the exit-interval check takes it from iteration %
\* exit_interval = 0, with no all-reduce, and calls sys.exit() behind a
\* barrier. In both cases a rank calls sys.exit() in an iteration only when
\* every rank has taken the same exit decision in that iteration.
C18_ExitByConsensus ==
    \A r \in Ranks :
        LET s == rank[r] IN
        s.pc = "exited" =>
            /\ s.exit_path \in {"duration", "interval"}
            /\ s.exit_path = "duration" =>
                  /\ cfg.exit_duration_in_mins # 0
                  /\ \A q \in Ranks :
                        /\ rank[q].iteration = s.iteration
                        /\ rank[q].done = 1
                        /\ rank[q].done_iteration = s.iteration
            /\ s.exit_path = "interval" =>
                  /\ cfg.exit_interval # 0
                  /\ s.iteration % cfg.exit_interval = 0
                  /\ s.done = 0
                  /\ s.calls[Len(s.calls)] = "exit_barrier"
                  /\ \A q \in Ranks :
                        /\ rank[q].iteration = s.iteration
                        /\ rank[q].pc \in {"exit_now", "exited"}
                        /\ rank[q].exit_path # "duration"

\* C18 witness: with both checks configured every rank left by the
\* exit-interval path, in an iteration whose all-reduced duration flag was 0.
C18_Witness ==
    /\ cfg.exit_duration_in_mins # 0
    /\ \A r \in Ranks :
          /\ rank[r].pc = "exited" /\ rank[r].exit_path = "interval"
          /\ rank[r].done = 0
          /\ rank[r].done_iteration = rank[r].iteration

\* ---------------------------------------------------- claims of SpecPretrain
UnknownDDP == cfg.DDP_impl \notin {"torch", "local"}
MissingIters == cfg.train_iters = 0 /\ cfg.train_samples = None
SetupCalled == Len(stages) >= 2
SetupRaised == pc = "error" /\ Len(stages) = 2 /\ steps_executed = 0

\* C21, as stated: a configuration with an unknown DDP implementation choice
\* or with neither train_iters nor train_samples never gets past
\* setup_model_and_optimizer and never runs a training step, whatever the
\* other flags are.
C21_ConfigErrorsFatal ==
    (UnknownDDP \/ MissingIters) =>
        /\ steps_executed = 0
        /\ SetupCalled => SetupRaised

\* C21, amended: the unknown DDP choice is fatal in setup when the external
\* engine is not used (get_model returns the model before the check when it
\* is), and the missing train_iters/train_samples is fatal in setup when the
\* scheduler is built (it is not with args.inference); in both cases no
\* training step is run.
C21_ConfigErrorsFatalWhenChecked ==
    \/ ~cfg.deepspeed /\ UnknownDDP
    \/ ~cfg.inference /\ MissingIters
    => /\ steps_executed = 0
       /\ SetupCalled => SetupRaised

\* Setup has raised for an unknown DDP choice, nothing else being wrong with
\* the configuration.
C21_Witness ==
    /\ SetupRaised
    /\ ~cfg.deepspeed /\ UnknownDDP /\ ~MissingIters
    /\ cfg.pipeline_model_parallel_size = 1

\* C22: the stages of pretrain() are entered in the order initialization,
\* model/optimizer/scheduler setup, data iterators, training; train() runs
\* only with do_train and train_iters > 0 and only after the three earlier
\* stages were entered and left without an exception.
C22_PretrainOrder ==
    /\ IsPrefix(stages, PretrainStages)
    /\ pc \in {"setup", "build", "built"} =>
          stages = SubSeq(PretrainStages, 1, Len(stages)) /\ steps_executed = 0
    /\ (pc = "loop" \/ steps_executed > 0 \/ Len(stages) = 4) =>
          /\ stages = PretrainStages
          /\ cfg.do_train /\ cfg.train_iters > 0

\* A training step has run in pretrain(), with train_iters derived from
\* train_samples.
C22_Witness ==
    /\ steps_executed = 1
    /\ stages = PretrainStages
    /\ cfg.train_samples # None /\ cfg.train_iters = 1

\* ------------------------------------------------------- claims of SpecBlend
\* C40: for num_layers >= 1, 0 <= random_ltd_layer_num <= num_layers and a
\* reserved length 0 <= r < L below the un-blended length L, the
\* actual_seq_length train() computes satisfies r <= actual_seq_length <= L;
\* it is L when random_ltd_layer_num = 0 and r when random_ltd_layer_num =
\* num_layers.
C40_BlendWithinBounds ==
    (pc = "blended" /\ random_ltd_reserved_length[1] < unblended_seq_length[1]) =>
        LET len == unblended_seq_length[1]
            r   == random_ltd_reserved_length[1]
        IN  /\ r <= actual_seq_length[1]
            /\ actual_seq_length[1] <= len
            /\ cfg.random_ltd_layer_num = 0 => actual_seq_length[1] = len
            /\ cfg.random_ltd_layer_num = cfg.num_layers => actual_seq_length[1] = r

\* 3 layers, 1 of them with random-LTD, length 5 and reserved length 2:
\* (5 * 2 + 2 * 1) // 3 = 4, strictly between the two.
C40_Witness ==
    /\ pc = "blended"
    /\ cfg.num_layers = 3 /\ cfg.random_ltd_layer_num = 1
    /\ unblended_seq_length = Some(5)
    /\ random_ltd_reserved_length = Some(2)
    /\ actual_seq_length = Some(4)

====
